---- MODULE Spec2Model ----
(***************************************************************************)
(* Model of the dual-method validation engine of invoice-scanner:          *)
(*   - CharacterKPICalculator (validation/character_kpi_calculator.py)     *)
(*   - the business rules and BusinessValidator (validation/validation/)   *)
(*                                                                         *)
(* Strings are sequences of one-character strings.  A field value of a     *)
(* record is a JSON scalar: a string [str |-> s], an integer [int |-> n]   *)
(* or null [none |-> TRUE]; str() turns each into its text.  A float       *)
(* accuracy correct/total is kept as the reduced fraction <<num, den>>.    *)
(* Decimals are exact integers in fixed units: money in units of 0.0001,   *)
(* quantities and percentages in whole units.                              *)
(***************************************************************************)
EXTENDS Integers, Sequences, FiniteSets, TLC

----------------------------------------------------------------------------
(* Bounds of the model *)

\* longest string handed to compare_characters
MaxStrLen == 3

\* most records in the reference list and in a candidate file
MaxLines == 2

\* most line items of an invoice
MaxInvoiceLines == 3

\* issue lists handed to _score directly: up to MaxErrors ERROR issues
\* followed by up to MaxTail issues of any severity
MaxErrors == 10
MaxTail == 3

\* most calls made on one processor
MaxCalls == 5

\* latest reading of the clock
MaxClock == 1

----------------------------------------------------------------------------
(* Values and strings *)

Whitespace == {" ", "\t", "\n"}
StrV(s) == [str |-> s]
IntV(n) == [int |-> n]
NoneV == [none |-> TRUE]

Digits == <<"0", "1", "2", "3", "4", "5", "6", "7", "8", "9">>

RECURSIVE NatToStr(_)
NatToStr(n) ==
    IF n < 10 THEN <<Digits[n + 1]>>
    ELSE NatToStr(n \div 10) \o <<Digits[(n % 10) + 1]>>

\* str(value)
ToStr(v) ==
    IF "str" \in DOMAIN v THEN v.str
    ELSE IF "int" \in DOMAIN v
         THEN (IF v.int < 0 THEN <<"-">> \o NatToStr(-v.int) ELSE NatToStr(v.int))
         ELSE <<"N", "o", "n", "e">>

RECURSIVE LStrip(_)
LStrip(s) ==
    IF s # <<>> /\ Head(s) \in Whitespace THEN LStrip(Tail(s)) ELSE s

RECURSIVE RStrip(_)
RStrip(s) ==
    IF s # <<>> /\ s[Len(s)] \in Whitespace
    THEN RStrip(SubSeq(s, 1, Len(s) - 1))
    ELSE s

\* str.strip()
Strip(s) == RStrip(LStrip(s))

Max(a, b) == IF a >= b THEN a ELSE b
Min(a, b) == IF a <= b THEN a ELSE b

RECURSIVE Gcd(_, _)
Gcd(a, b) == IF b = 0 THEN a ELSE Gcd(b, a % b)

\* the float n / d  (d > 0), as a reduced fraction
Ratio(n, d) == <<n \div Gcd(n, d), d \div Gcd(n, d)>>
One == <<1, 1>>
Zero == <<0, 1>>

----------------------------------------------------------------------------
(* State *)

VARIABLES
    \* one call of compare_characters: its two arguments and what it returned
    ground_truth, predicted, cmp_result,
    \* one call of calculate_global_kpis: its arguments ...
    ground_truth_data, predicted_files,
    \* ... its position, the file and the lines still to visit ...
    kpi_pc, file_idx, line_queue,
    \* ... the running totals of the file being scored ...
    total_chars, correct_chars, field_stats, processed_lines,
    total_measured_fields,
    \* ... and the results of the files scored so far
    global_results,
    \* which BusinessValidator method is called, and whether it has returned
    biz_pc,
    \* one call of BusinessValidator.validate: the invoice and the report
    invoice, report,
    \* one call of BusinessValidator._score: the issues and the score
    score_issues, score_result,
    \* the fields of one EnhancedValidationProcessor
    extracted_files_data, self_ground_truth_data, validation_method,
    validation_results,
    \* the clock, the calls made so far, and how the last call to end ended
    now, calls, last_call,
    \* run_validation: its position, the data and method in effect when it
    \* was called, and its locals validation_results, char_results and
    \* business_results
    run_pc, run_inputs, run_report, char_results, business_results,
    \* the data and method in effect when the run that stored
    \* validation_results was called
    results_inputs,
    \* one call of convert_json_to_invoice: its argument, its position, the
    \* index of the item at hand, its local lines and what it returned
    json_data, adp_pc, item_idx, converted_lines, converted_invoice

cmp_vars == <<ground_truth, predicted, cmp_result>>
kpi_inputs == <<ground_truth_data, predicted_files>>
kpi_totals == <<total_chars, correct_chars, field_stats, processed_lines,
                total_measured_fields>>
kpi_vars == <<kpi_inputs, kpi_pc, file_idx, line_queue, kpi_totals,
              global_results>>
biz_vars == <<biz_pc, invoice, report, score_issues, score_result>>
proc_data == <<extracted_files_data, self_ground_truth_data, validation_method>>
run_vars == <<run_pc, run_inputs, run_report, char_results, business_results>>
proc_vars == <<proc_data, validation_results, results_inputs, now, calls,
               last_call, run_vars>>
adp_vars == <<json_data, adp_pc, item_idx, converted_lines, converted_invoice>>
vars == <<cmp_vars, kpi_vars, biz_vars, proc_vars, adp_vars>>

----------------------------------------------------------------------------
(* CharacterKPICalculator.compare_characters *)

\* s[i] if i < len(s) else ''      (i counts from 0)
CharAt(s, i) == IF i < Len(s) THEN s[i + 1] ELSE ""

\* faulty variant: the count stops at the first position that differs
RECURSIVE CountCorrectPrefix(_, _, _, _)
CountCorrectPrefix(gt_str, pred_str, i, max_len) ==
    IF i >= max_len \/ CharAt(gt_str, i) # CharAt(pred_str, i) THEN 0
    ELSE 1 + CountCorrectPrefix(gt_str, pred_str, i + 1, max_len)

\* the loop "for i in range(max_len)": correct_chars after positions i..max_len-1
RECURSIVE CountCorrect(_, _, _, _)
CountCorrect(gt_str, pred_str, i, max_len) ==
    IF i >= max_len THEN 0
    ELSE (IF CharAt(gt_str, i) = CharAt(pred_str, i) THEN 1 ELSE 0)
         + CountCorrect(gt_str, pred_str, i + 1, max_len)

\* faulty variant: positions past the end of the shorter string are ignored
compare_characters_shorter(gt, pred) ==
    LET gt_str == Strip(ToStr(gt))
        pred_str == Strip(ToStr(pred))
    IN  IF gt_str = <<>> /\ pred_str = <<>>
        THEN [total_chars |-> 0, correct_chars |-> 0, accuracy |-> One]
        ELSE IF gt_str = <<>> \/ pred_str = <<>>
        THEN [total_chars |-> Len(gt_str) + Len(pred_str), correct_chars |-> 0,
              accuracy |-> Zero]
        ELSE LET min_len == Min(Len(gt_str), Len(pred_str))
                 correct == CountCorrect(gt_str, pred_str, 0, min_len)
             IN  [total_chars |-> min_len, correct_chars |-> correct,
                  accuracy |-> Ratio(correct, min_len)]

\* faulty variant: the positions past the end of the shorter string count as
\* correct
compare_characters_lenient_tail(gt, pred) ==
    LET gt_str == Strip(ToStr(gt))
        pred_str == Strip(ToStr(pred))
    IN  IF gt_str = <<>> /\ pred_str = <<>>
        THEN [total_chars |-> 0, correct_chars |-> 0, accuracy |-> One]
        ELSE IF gt_str = <<>> \/ pred_str = <<>>
        THEN [total_chars |-> Len(gt_str) + Len(pred_str), correct_chars |-> 0,
              accuracy |-> Zero]
        ELSE LET max_len == Max(Len(gt_str), Len(pred_str))
                 min_len == Min(Len(gt_str), Len(pred_str))
                 correct == CountCorrect(gt_str, pred_str, 0, min_len)
                                + (max_len - min_len)
             IN  [total_chars |-> max_len, correct_chars |-> correct,
                  accuracy |-> Ratio(correct, max_len)]

\* faulty variant: only the reference is trimmed on the right
compare_characters_keeps_padding(gt, pred) ==
    LET gt_str == Strip(ToStr(gt))
        pred_str == LStrip(ToStr(pred))
    IN  IF gt_str = <<>> /\ pred_str = <<>>
        THEN [total_chars |-> 0, correct_chars |-> 0, accuracy |-> One]
        ELSE IF gt_str = <<>> \/ pred_str = <<>>
        THEN [total_chars |-> Len(gt_str) + Len(pred_str), correct_chars |-> 0,
              accuracy |-> Zero]
        ELSE LET max_len == Max(Len(gt_str), Len(pred_str))
                 correct == CountCorrect(gt_str, pred_str, 0, max_len)
             IN  [total_chars |-> max_len, correct_chars |-> correct,
                  accuracy |-> Ratio(correct, max_len)]

\* faulty variant: the positions counted are those of the reference
compare_characters_reference_length(gt, pred) ==
    LET gt_str == Strip(ToStr(gt))
        pred_str == Strip(ToStr(pred))
    IN  IF gt_str = <<>> /\ pred_str = <<>>
        THEN [total_chars |-> 0, correct_chars |-> 0, accuracy |-> One]
        ELSE IF gt_str = <<>> \/ pred_str = <<>>
        THEN [total_chars |-> Len(gt_str) + Len(pred_str), correct_chars |-> 0,
              accuracy |-> Zero]
        ELSE LET ref_len == Len(gt_str)
                 correct == CountCorrect(gt_str, pred_str, 0, ref_len)
             IN  [total_chars |-> ref_len, correct_chars |-> correct,
                  accuracy |-> Ratio(correct, ref_len)]

compare_characters(gt, pred) ==
    LET gt_str == Strip(ToStr(gt))
        pred_str == Strip(ToStr(pred))
    IN  IF gt_str = <<>> /\ pred_str = <<>>
        THEN [total_chars |-> 0, correct_chars |-> 0, accuracy |-> One]
        ELSE IF gt_str = <<>> \/ pred_str = <<>>
        THEN LET longer_str == IF gt_str # <<>> THEN gt_str ELSE pred_str
             IN  [total_chars |-> Len(longer_str), correct_chars |-> 0,
                  accuracy |-> Zero]
        ELSE LET max_len == Max(Len(gt_str), Len(pred_str))
                 correct == CountCorrect(gt_str, pred_str, 0, max_len)
             IN  [total_chars |-> max_len, correct_chars |-> correct,
                  accuracy |-> IF max_len > 0 THEN Ratio(correct, max_len)
                               ELSE One]

\* the strings of length at most n over the alphabet
RECURSIVE StringsUpTo(_)
StringsUpTo(n) ==
    IF n = 0 THEN {<<>>}
    ELSE LET shorter == StringsUpTo(n - 1)
         IN  shorter \cup {Append(s, c) : s \in shorter, c \in {"a", "1", " "}}

\* the arguments compare_characters is called with
CompareInputs ==
    {StrV(s) : s \in StringsUpTo(MaxStrLen)}
        \cup {IntV(n) : n \in {-1, 7, 10}} \cup {NoneV}

NoCall == [none |-> TRUE]

\* the arguments of the call, and no result yet
CmpInit ==
    /\ ground_truth \in CompareInputs
    /\ predicted \in CompareInputs
    /\ cmp_result = NoCall

CompareCharacters ==
    /\ cmp_result = NoCall
    /\ cmp_result' = compare_characters(ground_truth, predicted)
    /\ UNCHANGED <<ground_truth, predicted>>

----------------------------------------------------------------------------
(* CharacterKPICalculator.calculate_line_kpis and calculate_global_kpis *)

measured_fields ==
    <<"barcode", "item_code", "description", "quantity", "unit_price",
      "discount_percent", "price_after_discount", "total_amount">>

MeasuredSet == {measured_fields[k] : k \in DOMAIN measured_fields}

EmptyStr == StrV(<<>>)

\* dict.get(key, default)
Get(d, key, default) == IF key \in DOMAIN d THEN d[key] ELSE default

\* faulty variant: a field the reference leaves blank is compared as well
RECURSIVE LineFieldsNoSkip(_, _, _, _)
LineFieldsNoSkip(ground_truth_line, file_line_data, k, acc) ==
    IF k > Len(measured_fields) THEN acc
    ELSE LET field == measured_fields[k]
             gt_value == Get(ground_truth_line, field, EmptyStr)
             pred_value == Get(file_line_data, field, EmptyStr)
             comparison_result == compare_characters(gt_value, pred_value)
         IN  LineFieldsNoSkip(ground_truth_line, file_line_data, k + 1,
               [field_results |->
                    acc.field_results @@ (field :> comparison_result),
                total_chars |-> acc.total_chars + comparison_result.total_chars,
                correct_chars |->
                    acc.correct_chars + comparison_result.correct_chars,
                measured_fields |-> acc.measured_fields + 1])

\* the body of "for field in self.measured_fields", from the k-th field on
RECURSIVE LineFieldsFrom(_, _, _, _)
LineFieldsFrom(ground_truth_line, file_line_data, k, acc) ==
    IF k > Len(measured_fields) THEN acc
    ELSE LET field == measured_fields[k]
             gt_value == Get(ground_truth_line, field, EmptyStr)
         IN  IF Strip(ToStr(gt_value)) = <<>>
             THEN LineFieldsFrom(ground_truth_line, file_line_data, k + 1, acc)
             ELSE LET pred_value == Get(file_line_data, field, EmptyStr)
                      comparison_result == compare_characters(gt_value, pred_value)
                  IN  LineFieldsFrom(ground_truth_line, file_line_data, k + 1,
                        [field_results |->
                             acc.field_results @@ (field :> comparison_result),
                         total_chars |->
                             acc.total_chars + comparison_result.total_chars,
                         correct_chars |->
                             acc.correct_chars + comparison_result.correct_chars,
                         measured_fields |-> acc.measured_fields + 1])

\* the result calculate_line_kpis builds for one file's line
calculate_line_kpis(ground_truth_line, file_line_data) ==
    LET r == LineFieldsFrom(ground_truth_line, file_line_data, 1,
                 [field_results |-> [f \in {} |-> 0], total_chars |-> 0,
                  correct_chars |-> 0, measured_fields |-> 0])
    IN  [field_results |-> r.field_results,
         line_accuracy |-> IF r.total_chars > 0
                           THEN Ratio(r.correct_chars, r.total_chars) ELSE One,
         total_chars |-> r.total_chars,
         correct_chars |-> r.correct_chars,
         measured_fields |-> r.measured_fields]

\* item.get('line', i+1) of the i-th record (i counts from 1 here)
LineOf(data, i) == IF "line" \in DOMAIN data[i] THEN data[i].line ELSE i

\* {item.get('line', i+1): item for i, item in enumerate(data)}: the last wins
LineMap(data) ==
    [ln \in {LineOf(data, i) : i \in DOMAIN data} |->
        data[CHOOSE i \in DOMAIN data :
                /\ LineOf(data, i) = ln
                /\ \A j \in DOMAIN data : LineOf(data, j) = ln => j <= i]]

gt_map == LineMap(ground_truth_data)
files_map(i) == LineMap(predicted_files[i].items)

all_line_numbers ==
    DOMAIN gt_map \cup UNION {DOMAIN files_map(i) : i \in DOMAIN predicted_files}

\* sorted(S)
RECURSIVE Sorted(_)
Sorted(S) ==
    IF S = {} THEN <<>>
    ELSE LET m == CHOOSE x \in S : \A y \in S : x <= y
         IN  <<m>> \o Sorted(S \ {m})

ZeroStats ==
    [field \in MeasuredSet |->
        [total_chars |-> 0, correct_chars |-> 0, measured_count |-> 0]]

\* field_stats after the loop over file_line_result['field_results']
AddFieldResults(stats, field_results) ==
    [field \in MeasuredSet |->
        IF field \in DOMAIN field_results
        THEN [total_chars |->
                  stats[field].total_chars + field_results[field].total_chars,
              correct_chars |->
                  stats[field].correct_chars + field_results[field].correct_chars,
              measured_count |-> stats[field].measured_count + 1]
        ELSE stats[field]]

\* faulty variant: the fields that were never measured are listed too
FieldAccuraciesOfAllFields(stats) ==
    [field \in MeasuredSet |->
        [accuracy |-> IF stats[field].total_chars > 0
                      THEN Ratio(stats[field].correct_chars, stats[field].total_chars)
                      ELSE Zero,
         total_chars |-> stats[field].total_chars,
         correct_chars |-> stats[field].correct_chars,
         measured_in_lines |-> stats[field].measured_count]]

\* field_accuracies: only the fields that were measured
FieldAccuracies(stats) ==
    [field \in {f \in MeasuredSet : stats[f].measured_count > 0} |->
        [accuracy |-> IF stats[field].total_chars > 0
                      THEN Ratio(stats[field].correct_chars, stats[field].total_chars)
                      ELSE Zero,
         total_chars |-> stats[field].total_chars,
         correct_chars |-> stats[field].correct_chars,
         measured_in_lines |-> stats[field].measured_count]]

\* faulty variant: nothing measured counts as a perfect match
OverallAccuracyVacuous(correct, total) ==
    IF total > 0 THEN Ratio(correct, total) ELSE One

OverallAccuracy(correct, total) ==
    IF total > 0 THEN Ratio(correct, total) ELSE Zero

RECURSIVE ListsUpTo(_, _)
ListsUpTo(S, n) ==
    IF n = 0 THEN {<<>>}
    ELSE LET shorter == ListsUpTo(S, n - 1)
         IN  shorter \cup {Append(l, x) : l \in shorter, x \in S}

\* the lists of records the reference and the candidate files are made of
RecordSets ==
    ListsUpTo(
        { [line |-> 1, description |-> StrV(<<"a", "b">>), quantity |-> IntV(10)],
          [line |-> 1, description |-> StrV(<<"a", "c">>),
           quantity |-> StrV(<<"1">>)],
          [line |-> 2, description |-> StrV(<<" ">>)],
          [description |-> StrV(<<"a">>)] },
        MaxLines)

\* predicted_files, a dict in insertion order: no file, one file or two files
PredictedFiles ==
    LET \* what a second candidate file holds
        SecondFiles ==
        { <<[line |-> 3, description |-> StrV(<<"a", "b">>), quantity |-> NoneV]>>,
          <<[line |-> 1, description |-> StrV(<<" ", "a", "b">>),
             quantity |-> StrV(<<"1", "0">>)]>>,
          <<[line |-> 1, description |-> StrV(<<"c">>), quantity |-> IntV(2)]>> }
    IN  {<<>>}
            \cup {<<[key |-> "f1", items |-> l]>> : l \in RecordSets}
            \cup {<<[key |-> "f1", items |-> l], [key |-> "f2", items |-> m]>> :
                     l \in RecordSets, m \in SecondFiles}

NoResults == [f \in {} |-> 0]

\* a reference of one whole line, a file equal to it and a file that has two
\* letters of the description in each other's place
EndToEndExample ==
    LET Line(description) ==
            [line |-> 1, description |-> StrV(description), quantity |-> IntV(2),
             unit_price |-> IntV(10), total_amount |-> IntV(20)]
    IN  [ground_truth_data |-> <<Line(<<"A", "p", "p", "l", "e">>)>>,
         predicted_files |->
             <<[key |-> "f1", items |-> <<Line(<<"A", "p", "p", "l", "e">>)>>],
               [key |-> "f2", items |-> <<Line(<<"A", "p", "l", "l", "e">>)>>]>>]

KpiInit ==
    /\ \E inputs \in [ground_truth_data : RecordSets,
                       predicted_files : PredictedFiles] \cup {EndToEndExample} :
           /\ ground_truth_data = inputs.ground_truth_data
           /\ predicted_files = inputs.predicted_files
    /\ kpi_pc = "call"
    /\ file_idx = 0
    /\ line_queue = <<>>
    /\ total_chars = 0
    /\ correct_chars = 0
    /\ field_stats = ZeroStats
    /\ processed_lines = 0
    /\ total_measured_fields = 0
    /\ global_results = NoResults

\* entry of calculate_global_kpis: the maps are built, no file is scored yet
CalculateGlobalKpis ==
    /\ kpi_pc = "call"
    /\ kpi_pc' = "file"
    /\ file_idx' = 1
    /\ global_results' = NoResults
    /\ UNCHANGED <<kpi_inputs, line_queue, kpi_totals>>

\* "for file_key in predicted_files.keys()": the totals of the next file at zero
NextFile ==
    /\ kpi_pc = "file"
    /\ file_idx <= Len(predicted_files)
    /\ total_chars' = 0
    /\ correct_chars' = 0
    /\ field_stats' = ZeroStats
    /\ processed_lines' = 0
    /\ total_measured_fields' = 0
    /\ line_queue' = Sorted(all_line_numbers)
    /\ kpi_pc' = "line"
    /\ UNCHANGED <<kpi_inputs, file_idx, global_results>>

LineMissing(line_num) ==
    line_num \notin DOMAIN gt_map \/ line_num \notin DOMAIN files_map(file_idx)

\* faulty variant: a missing line is counted as a processed line
SkipLineAsZero ==
    /\ kpi_pc = "line"
    /\ line_queue # <<>>
    /\ LineMissing(Head(line_queue))
    /\ line_queue' = Tail(line_queue)
    /\ processed_lines' = processed_lines + 1
    /\ UNCHANGED <<kpi_inputs, kpi_pc, file_idx, total_chars, correct_chars,
                   field_stats, total_measured_fields, global_results>>

\* "continue": a line the reference or this file lacks
SkipLine ==
    /\ kpi_pc = "line"
    /\ line_queue # <<>>
    /\ LineMissing(Head(line_queue))
    /\ line_queue' = Tail(line_queue)
    /\ UNCHANGED <<kpi_inputs, kpi_pc, file_idx, kpi_totals, global_results>>

\* a line both have: its counts go into the file's and the fields' totals
ScoreLine ==
    /\ kpi_pc = "line"
    /\ line_queue # <<>>
    /\ ~LineMissing(Head(line_queue))
    /\ LET line_num == Head(line_queue)
           gt_line == gt_map[line_num]
           pred_line == files_map(file_idx)[line_num]
           file_line_result == calculate_line_kpis(gt_line, pred_line)
       IN  /\ total_chars' = total_chars + file_line_result.total_chars
           /\ correct_chars' = correct_chars + file_line_result.correct_chars
           /\ processed_lines' = processed_lines + 1
           /\ total_measured_fields' =
                  total_measured_fields + file_line_result.measured_fields
           /\ field_stats' =
                  AddFieldResults(field_stats, file_line_result.field_results)
    /\ line_queue' = Tail(line_queue)
    /\ UNCHANGED <<kpi_inputs, kpi_pc, file_idx, global_results>>

\* after the last line: global_results[file_key] = {...}
FinishFile ==
    /\ kpi_pc = "line"
    /\ line_queue = <<>>
    /\ global_results' = global_results @@
         (predicted_files[file_idx].key :>
            [overall_accuracy |-> OverallAccuracy(correct_chars, total_chars),
             total_characters |-> total_chars,
             correct_characters |-> correct_chars,
             processed_lines |-> processed_lines,
             total_measured_fields |-> total_measured_fields,
             field_accuracies |-> FieldAccuracies(field_stats)])
    /\ file_idx' = file_idx + 1
    /\ kpi_pc' = "file"
    /\ UNCHANGED <<kpi_inputs, line_queue, kpi_totals>>

\* "return global_results"
ReturnKpis ==
    /\ kpi_pc = "file"
    /\ file_idx > Len(predicted_files)
    /\ kpi_pc' = "done"
    /\ UNCHANGED <<kpi_inputs, file_idx, line_queue, kpi_totals, global_results>>

\* calculate_global_kpis is not being called
KpiIdle ==
    /\ ground_truth_data = <<>>
    /\ predicted_files = <<>>
    /\ kpi_pc = "idle"
    /\ file_idx = 0
    /\ line_queue = <<>>
    /\ total_chars = 0
    /\ correct_chars = 0
    /\ field_stats = ZeroStats
    /\ processed_lines = 0
    /\ total_measured_fields = 0
    /\ global_results = NoResults

\* compare_characters is not being called
CmpIdle ==
    /\ ground_truth = NoCall
    /\ predicted = NoCall
    /\ cmp_result = [idle |-> TRUE]

----------------------------------------------------------------------------
(* validation/rules.py: the business rules.                                *)
(* Money (unit_price, line_total, subtotal, vat_amount, total) is an       *)
(* integer number of 0.0001; qty, discount_pct and vat_pct are whole       *)
(* numbers.  An issue keeps its code, severity and path; the path          *)
(* f"lines[{i}].x" is [at |-> "lines", index |-> i, field |-> "x"].         *)

\* Decimal("0.05"), in units of 0.0001
TOLERANCE == 500
DEFAULT_VAT == 17

Abs(x) == IF x < 0 THEN -x ELSE x

\* faulty variant: a difference of exactly the tolerance is rejected
approx_equal_strict(a, b) == Abs(a - b) < TOLERANCE

approx_equal(a, b) == Abs(a - b) <= TOLERANCE

\* qty * unit_price * (1 - discount_pct/100); exact, as unit_price is a
\* whole number of hundredths
ExpectedLineTotal(line) ==
    (line.qty * line.unit_price * (100 - line.discount_pct)) \div 100

LinePath(i, field) == [at |-> "lines", index |-> i, field |-> field]
FinalPath(field) == [at |-> "final", field |-> field]

Issue(code, severity, path) ==
    [code |-> code, severity |-> severity, path |-> path]

\* what one pass of "for i, line in enumerate(inv.lines)" appends (i from 0)
LineTotalIssues(line, i) ==
    IF ~approx_equal(line.line_total, ExpectedLineTotal(line))
    THEN <<Issue("E-LINE-TOTAL-MISMATCH", "ERROR", LinePath(i, "line_total"))>>
    ELSE <<>>

RECURSIVE check_line_totals_from(_, _)
check_line_totals_from(inv, i) ==
    IF i >= Len(inv.lines) THEN <<>>
    ELSE LineTotalIssues(inv.lines[i + 1], i) \o check_line_totals_from(inv, i + 1)

check_line_totals(inv) == check_line_totals_from(inv, 0)

RECURSIVE SumLineTotals(_)
SumLineTotals(lines) ==
    IF lines = <<>> THEN 0 ELSE Head(lines).line_total + SumLineTotals(Tail(lines))

NoFinal == [none |-> TRUE]

\* faulty variant: the total is only looked at when the subtotal is right
check_subtotals_first_only(inv) ==
    IF inv.final = NoFinal THEN <<>>
    ELSE IF ~approx_equal(inv.final.subtotal, SumLineTotals(inv.lines))
    THEN <<Issue("E-SUBTOTAL-MISMATCH", "ERROR", FinalPath("subtotal"))>>
    ELSE IF ~approx_equal(inv.final.total,
                          inv.final.subtotal + inv.final.vat_amount)
    THEN <<Issue("E-TOTAL-MISMATCH", "ERROR", FinalPath("total"))>>
    ELSE <<>>

check_subtotals(inv) ==
    IF inv.final = NoFinal THEN <<>>
    ELSE LET sum_lines == SumLineTotals(inv.lines)
             total_expected == inv.final.subtotal + inv.final.vat_amount
         IN  (IF ~approx_equal(inv.final.subtotal, sum_lines)
              THEN <<Issue("E-SUBTOTAL-MISMATCH", "ERROR", FinalPath("subtotal"))>>
              ELSE <<>>)
             \o
             (IF ~approx_equal(inv.final.total, total_expected)
              THEN <<Issue("E-TOTAL-MISMATCH", "ERROR", FinalPath("total"))>>
              ELSE <<>>)

\* faulty variant: "if" where the code has "elif"
VatIssuesNoElse(line, i) ==
    (IF line.vat_pct < 0 \/ line.vat_pct > 100
     THEN <<Issue("E-VAT-RATE", "ERROR", LinePath(i, "vat_pct"))>>
     ELSE <<>>)
    \o
    (IF line.vat_pct # DEFAULT_VAT
     THEN <<Issue("W-VAT-UNUSUAL", "WARN", LinePath(i, "vat_pct"))>>
     ELSE <<>>)

VatIssues(line, i) ==
    IF line.vat_pct < 0 \/ line.vat_pct > 100
    THEN <<Issue("E-VAT-RATE", "ERROR", LinePath(i, "vat_pct"))>>
    ELSE IF line.vat_pct # DEFAULT_VAT
    THEN <<Issue("W-VAT-UNUSUAL", "WARN", LinePath(i, "vat_pct"))>>
    ELSE <<>>

RECURSIVE check_vat_reasonableness_from(_, _)
check_vat_reasonableness_from(inv, i) ==
    IF i >= Len(inv.lines) THEN <<>>
    ELSE VatIssues(inv.lines[i + 1], i) \o check_vat_reasonableness_from(inv, i + 1)

check_vat_reasonableness(inv) == check_vat_reasonableness_from(inv, 0)

\* faulty variant: the warning starts at 90 instead of above 90
DiscountIssuesFrom90(line, i) ==
    IF line.discount_pct < 0 \/ line.discount_pct > 100
    THEN <<Issue("E-DISCOUNT-RANGE", "ERROR", LinePath(i, "discount_pct"))>>
    ELSE IF line.discount_pct >= 90
    THEN <<Issue("W-DISCOUNT-HIGH", "WARN", LinePath(i, "discount_pct"))>>
    ELSE <<>>

DiscountIssues(line, i) ==
    IF line.discount_pct < 0 \/ line.discount_pct > 100
    THEN <<Issue("E-DISCOUNT-RANGE", "ERROR", LinePath(i, "discount_pct"))>>
    ELSE IF line.discount_pct > 90
    THEN <<Issue("W-DISCOUNT-HIGH", "WARN", LinePath(i, "discount_pct"))>>
    ELSE <<>>

RECURSIVE check_discounts_from(_, _)
check_discounts_from(inv, i) ==
    IF i >= Len(inv.lines) THEN <<>>
    ELSE DiscountIssues(inv.lines[i + 1], i) \o check_discounts_from(inv, i + 1)

check_discounts(inv) == check_discounts_from(inv, 0)

run_all_rules(inv) ==
    check_line_totals(inv) \o check_subtotals(inv)
        \o check_vat_reasonableness(inv) \o check_discounts(inv)

----------------------------------------------------------------------------
(* validation/validator.py: BusinessValidator *)

\* SEVERITY_WEIGHTS.get(severity, 0)
SeverityWeight(severity) ==
    CASE severity = "ERROR" -> 10
      [] severity = "WARN" -> 3
      [] severity = "INFO" -> 0
      [] OTHER -> 0

RECURSIVE Penalty(_)
Penalty(issues) ==
    IF issues = <<>> THEN 0
    ELSE SeverityWeight(Head(issues).severity) + Penalty(Tail(issues))

\* faulty variant: no floor at 0
BusinessValidator_score_unclamped(issues) == 100 - Penalty(issues)

\* BusinessValidator._score
BusinessValidator_score(issues) == Max(0, 100 - Penalty(issues))

HasError(issues) == \E k \in DOMAIN issues : issues[k].severity = "ERROR"

\* faulty variant: the verdict looks at the score alone
StatusByScoreOnly(score, issues) ==
    IF score >= 90 THEN "PASS"
    ELSE IF score >= 70 THEN "REVIEW"
    ELSE "FAIL"

StatusOf(score, issues) ==
    IF score >= 90 /\ ~HasError(issues) THEN "PASS"
    ELSE IF score >= 70 THEN "REVIEW"
    ELSE "FAIL"

\* BusinessValidator.validate, of an invoice the schema accepts
BusinessValidator_validate(inv) ==
    LET issues == run_all_rules(inv)
        score == BusinessValidator_score(issues)
    IN  [issues |-> issues, score |-> score, status |-> StatusOf(score, issues)]

Line(qty, unit_price, discount_pct, vat_pct, line_total) ==
    [qty |-> qty, unit_price |-> unit_price, discount_pct |-> discount_pct,
     vat_pct |-> vat_pct, line_total |-> line_total]

\* a Final block built around the sum of the line totals
Finals(lines) ==
    {NoFinal} \cup
    { [subtotal |-> SumLineTotals(lines) + d[1],
       vat_amount |-> 1700,
       total |-> SumLineTotals(lines) + d[1] + 1700 + d[2]] :
         d \in {<<0, 0>>, <<500, 0>>, <<600, 0>>, <<0, -500>>, <<0, 600>>,
                <<600, -600>>} }

\* the lines of the invoices validate is called with, lists of the line
\* items below
InvoiceLineLists ==
    ListsUpTo(
    { Line(2, 100000, 0, 17, 200000),    \* 2 x 10.00 = 20.00
      Line(1, 10500, 0, 17, 11000),      \* 1.05 billed 1.10: off by 0.05
      Line(1, 10500, 50, 100, 5750),     \* 0.525 billed 0.575: off by 0.05
      Line(1, 10500, 50, 17, 5800),      \* 0.525 billed 0.58: off by 0.055
      Line(1, 100000, 95, 17, 5000),     \* 95% off, consistent
      Line(1, 10000, 100, 0, 0),         \* 100% off, VAT 0
      Line(1, 10000, 150, 17, -5000),    \* 150% off, consistent
      Line(1, 10000, -5, 101, 10500),    \* -5% off, VAT 101
      Line(1, 100000, 90, -1, 10000),    \* 90% off, VAT -1
      Line(1, 10000, 150, 101, 99900) }, \* everything wrong
    MaxInvoiceLines)

RECURSIVE Errors(_)
Errors(n) ==
    IF n = 0 THEN <<>>
    ELSE Append(Errors(n - 1), Issue("E-TOTAL-MISMATCH", "ERROR", FinalPath("total")))

\* the issue lists _score is called with
IssueLists ==
    {Errors(n) \o tail :
        n \in 0..MaxErrors,
        tail \in ListsUpTo({Issue("X", sev, FinalPath("x")) : sev \in {"ERROR", "WARN", "INFO", "DEBUG"}},
                           MaxTail)}

NoInvoice == [lines |-> <<>>, final |-> NoFinal]
NoReport == [none |-> TRUE]
NoScore == [none |-> TRUE]

\* BusinessValidator is not being called
BizIdle ==
    /\ biz_pc = "idle"
    /\ invoice = NoInvoice
    /\ report = NoReport
    /\ score_issues = <<>>
    /\ score_result = NoScore

\* either an invoice to validate or a list of issues to score
BizInit ==
    /\ report = NoReport
    /\ score_result = NoScore
    /\ \/ /\ biz_pc = "validate"
          /\ \E l \in InvoiceLineLists :
                 \E f \in Finals(l) : invoice = [lines |-> l, final |-> f]
          /\ score_issues = <<>>
       \/ biz_pc = "score" /\ invoice = NoInvoice /\ score_issues \in IssueLists

Validate ==
    /\ biz_pc = "validate"
    /\ report' = BusinessValidator_validate(invoice)
    /\ biz_pc' = "validated"
    /\ UNCHANGED <<invoice, score_issues, score_result>>

ScoreIssues ==
    /\ biz_pc = "score"
    /\ score_result' = BusinessValidator_score(score_issues)
    /\ biz_pc' = "scored"
    /\ UNCHANGED <<invoice, report, score_issues>>

----------------------------------------------------------------------------
(* calculate_global_kpis as a function of its two arguments: what one call  *)
(* made by run_character_validation returns.  predicted_files is the dict   *)
(* in insertion order, a sequence of [key, items].                          *)

\* a JSON scalar where a record is expected: item.get raises AttributeError
IsScalar(v) == DOMAIN v \cap {"str", "int", "none"} # {}

Malformed(data) == \E i \in DOMAIN data : IsScalar(data[i])

Keys(files) == {files[i].key : i \in DOMAIN files}

FileAt(files, file_key) ==
    files[CHOOSE i \in DOMAIN files : files[i].key = file_key]

\* the dict comprehensions that build gt_map and files_map raise on an item
\* that is no record, before any line is scored
kpis_raise(gt, files) ==
    Malformed(gt) \/ \E i \in DOMAIN files : Malformed(files[i].items)

\* the totals of a file after one more line, whose calculate_line_kpis is r
AddLineResult(acc, r) ==
    [total_chars |-> acc.total_chars + r.total_chars,
     correct_chars |-> acc.correct_chars + r.correct_chars,
     field_stats |-> AddFieldResults(acc.field_stats, r.field_results),
     processed_lines |-> acc.processed_lines + 1,
     total_measured_fields |-> acc.total_measured_fields + r.measured_fields]

\* faulty variant: a line the reference or the file lacks counts as processed
RECURSIVE FileTotalsCountingMissing(_, _, _, _)
FileTotalsCountingMissing(gt_lines, file_lines, queue, acc) ==
    IF queue = <<>> THEN acc
    ELSE IF Head(queue) \notin DOMAIN gt_lines \/ Head(queue) \notin DOMAIN file_lines
    THEN FileTotalsCountingMissing(gt_lines, file_lines, Tail(queue),
             [acc EXCEPT !.processed_lines = @ + 1])
    ELSE FileTotalsCountingMissing(gt_lines, file_lines, Tail(queue),
             AddLineResult(acc, calculate_line_kpis(gt_lines[Head(queue)],
                                                    file_lines[Head(queue)])))

\* "for line_num in sorted(all_line_numbers)" for one file, from queue on
RECURSIVE FileTotalsFrom(_, _, _, _)
FileTotalsFrom(gt_lines, file_lines, queue, acc) ==
    IF queue = <<>> THEN acc
    ELSE IF Head(queue) \notin DOMAIN gt_lines \/ Head(queue) \notin DOMAIN file_lines
    THEN FileTotalsFrom(gt_lines, file_lines, Tail(queue), acc)
    ELSE FileTotalsFrom(gt_lines, file_lines, Tail(queue),
             AddLineResult(acc, calculate_line_kpis(gt_lines[Head(queue)],
                                                    file_lines[Head(queue)])))

\* global_results[file_key]
FileKpis(gt, files, file_key) ==
    LET FileResult(t) ==
            [overall_accuracy |-> OverallAccuracy(t.correct_chars, t.total_chars),
             total_characters |-> t.total_chars,
             correct_characters |-> t.correct_chars,
             processed_lines |-> t.processed_lines,
             total_measured_fields |-> t.total_measured_fields,
             field_accuracies |-> FieldAccuracies(t.field_stats)]
        AllLineNumbers ==
            DOMAIN LineMap(gt)
                \cup UNION {DOMAIN LineMap(files[i].items) : i \in DOMAIN files}
        NoTotals ==
            [total_chars |-> 0, correct_chars |-> 0, field_stats |-> ZeroStats,
             processed_lines |-> 0, total_measured_fields |-> 0]
    IN  FileResult(FileTotalsFrom(LineMap(gt), LineMap(FileAt(files, file_key).items),
                                  Sorted(AllLineNumbers), NoTotals))

\* the dict calculate_global_kpis returns when it does not raise
calculate_global_kpis(gt, files) ==
    [file_key \in Keys(files) |-> FileKpis(gt, files, file_key)]

----------------------------------------------------------------------------
(* BusinessValidationAdapter.  Amounts of money are in the unit of the      *)
(* rules above (TOLERANCE is 0.05 of the currency); quantities and          *)
(* percentages are whole numbers.                                           *)

CurrencyUnit == TOLERANCE * 20

RECURSIVE StrToNat(_)
StrToNat(s) ==
    IF s = <<>> THEN 0
    ELSE StrToNat(SubSeq(s, 1, Len(s) - 1)) * 10
            + (CHOOSE d \in 0..9 : Digits[d + 1] = s[Len(s)])

\* safe_decimal, of the values the records of this model hold: None,
\* integers, and strings that spell a whole number or no number at all
safe_decimal(value) ==
    LET IsNat(s) == s # <<>> /\ \A k \in DOMAIN s : \E d \in DOMAIN Digits : s[k] = Digits[d]
        Without(s, chars) == SelectSeq(s, LAMBDA c : c \notin chars)
        Decimal(cleaned) ==
            IF IsNat(cleaned) THEN StrToNat(cleaned)
            ELSE IF cleaned # <<>> /\ Head(cleaned) = "-" /\ IsNat(Tail(cleaned))
            THEN 0 - StrToNat(Tail(cleaned))
            ELSE 0
    IN  IF value = NoneV \/ value = EmptyStr THEN 0
        ELSE IF "int" \in DOMAIN value THEN value.int
        ELSE Decimal(Strip(Without(Strip(value.str), {",", "$"})))

\* the LineItem of one item, or None when the item cannot be converted:
\* barcode and item_code are Optional[str] in the schema, and the line total
\* is computed when total_amount is 0
convert_item_to_line_item(item, line_no) ==
    LET OptionalStr(v) == v = NoneV \/ "str" \in DOMAIN v
        LineItem(description, qty, unit_price, discount_pct, vat_pct, total_amount) ==
            [line_no |-> line_no,
             description |-> description,
             qty |-> qty,
             unit_price |-> unit_price,
             discount_pct |-> discount_pct,
             vat_pct |-> vat_pct,
             line_total |-> IF total_amount = 0
                            THEN (qty * unit_price * (100 - discount_pct)) \div 100
                            ELSE total_amount]
    IN  IF IsScalar(item) THEN NoneV
        ELSE IF Strip(ToStr(Get(item, "description", EmptyStr))) = <<>> THEN NoneV
        ELSE IF ~OptionalStr(Get(item, "barcode", NoneV))
                \/ ~OptionalStr(Get(item, "item_code", NoneV))
        THEN NoneV
        ELSE LineItem(Strip(ToStr(Get(item, "description", EmptyStr))),
                      safe_decimal(Get(item, "quantity", IntV(1))),
                      safe_decimal(Get(item, "unit_price", IntV(0))) * CurrencyUnit,
                      safe_decimal(Get(item, "discount_percent", IntV(0))),
                      safe_decimal(Get(item, "vat_percent", IntV(17))),
                      safe_decimal(Get(item, "total_amount", IntV(0))) * CurrencyUnit)

RECURSIVE SumLineVat(_)
SumLineVat(lines) ==
    IF lines = <<>> THEN 0
    ELSE (Head(lines).line_total * Head(lines).vat_pct) \div 100
            + SumLineVat(Tail(lines))

\* extract_invoice_final: from the block 'summary', else from the block
\* 'totals', else computed from the lines
extract_invoice_final(data, lines) ==
    LET Money(block, field, default) ==
            IF field \in DOMAIN block
            THEN safe_decimal(block[field]) * CurrencyUnit ELSE default
        FromBlock(block, subtotal) ==
            [subtotal |-> subtotal,
             vat_amount |-> Money(block, "vat_amount", 0),
             total |-> Money(block, "total", subtotal + Money(block, "vat_amount", 0))]
    IN  IF "summary" \in DOMAIN data
        THEN FromBlock(data.summary,
                       Money(data.summary, "subtotal", SumLineTotals(lines)))
        ELSE IF "totals" \in DOMAIN data
        THEN FromBlock(data.totals,
                       Money(data.totals, "subtotal", SumLineTotals(lines)))
        ELSE [subtotal |-> SumLineTotals(lines), vat_amount |-> SumLineVat(lines),
              total |-> SumLineTotals(lines) + SumLineVat(lines)]

\* extract_main_items of a dict: its 'main_items', [] when it has none
extract_main_items(data) ==
    IF "main_items" \in DOMAIN data THEN data.main_items ELSE <<>>

\* "for i, item in enumerate(main_items)": the lines that convert, in order
RECURSIVE ConvertLinesFrom(_, _)
ConvertLinesFrom(main_items, i) ==
    LET Kept(line) == IF line = NoneV THEN <<>> ELSE <<line>>
    IN  IF i > Len(main_items) THEN <<>>
        ELSE Kept(convert_item_to_line_item(main_items[i], i))
                 \o ConvertLinesFrom(main_items, i + 1)

\* the Invoice, or None when there is no item or no item converts
convert_json_to_invoice(data) ==
    LET InvoiceOf(lines) ==
            IF lines = <<>> THEN NoneV
            ELSE [lines |-> lines, final |-> extract_invoice_final(data, lines)]
    IN  IF extract_main_items(data) = <<>> THEN NoneV
        ELSE InvoiceOf(ConvertLinesFrom(extract_main_items(data), 1))

\* one entry of conversion_logs, written at clock reading t
LogEntry(t, level, message) == [timestamp |-> t, level |-> level, message |-> message]

RECURSIVE ItemErrorsFrom(_, _, _)
ItemErrorsFrom(main_items, i, t) ==
    IF i > Len(main_items) THEN <<>>
    ELSE (IF convert_item_to_line_item(main_items[i], i) = NoneV
          THEN <<LogEntry(t, "ERROR", "Error converting item to LineItem")>>
          ELSE <<>>)
         \o ItemErrorsFrom(main_items, i + 1, t)

\* conversion_logs when the file's result is built
ConversionLogs(items_list, t) ==
    <<LogEntry(t, "INFO", "Starting business validation for file")>>
    \o (IF items_list = <<>>
        THEN <<LogEntry(t, "ERROR", "No main_items found in JSON data")>>
        ELSE ItemErrorsFrom(items_list, 1, t)
             \o (IF ConvertLinesFrom(items_list, 1) = <<>>
                 THEN <<LogEntry(t, "ERROR", "No valid lines found after conversion")>>
                 ELSE <<LogEntry(t, "INFO", "Successfully converted invoice")>>))

\* results[file_key] of validate_business_logic, the file handled at clock
\* reading t.  An invoice the adapter built passes the schema again, so
\* validate does not raise.
FileBusinessResult(items_list, t) ==
    LET Validated(inv, validation_result, logs) ==
            [success |-> TRUE,
             score |-> validation_result.score,
             status |-> validation_result.status,
             issues |-> validation_result.issues,
             lines_validated |-> Len(inv.lines),
             conversion_logs |-> logs]
        ResultOf(inv, logs) ==
            IF inv # NoneV
            THEN Validated(inv, BusinessValidator_validate(inv), logs)
            ELSE [success |-> FALSE,
                  error |-> "Failed to convert to invoice format",
                  conversion_logs |-> logs]
    IN  ResultOf(convert_json_to_invoice([main_items |-> items_list]),
                 ConversionLogs(items_list, t))

IndexOf(files, file_key) == CHOOSE i \in DOMAIN files : files[i].key = file_key

\* faulty variant: the loop ends at the first file that fails
validate_business_logic_aborting(json_files_data, stamps) ==
    [file_key \in
        {json_files_data[i].key : i \in
            {j \in DOMAIN json_files_data :
                \A h \in 1..(j - 1) :
                    convert_json_to_invoice([main_items |-> json_files_data[h].items])
                        # NoneV}} |->
        FileBusinessResult(FileAt(json_files_data, file_key).items,
                           stamps[IndexOf(json_files_data, file_key)])]

\* faulty variant: a file that fails gets no entry
validate_business_logic_omitting(json_files_data, stamps) ==
    [file_key \in
        {json_files_data[i].key : i \in
            {j \in DOMAIN json_files_data :
                convert_json_to_invoice([main_items |-> json_files_data[j].items]) # NoneV}} |->
        FileBusinessResult(FileAt(json_files_data, file_key).items,
                           stamps[IndexOf(json_files_data, file_key)])]

\* the dict validate_business_logic returns; stamps[i] is the clock reading
\* while the i-th file is handled
validate_business_logic(json_files_data, stamps) ==
    [file_key \in Keys(json_files_data) |->
        FileBusinessResult(FileAt(json_files_data, file_key).items,
                           stamps[IndexOf(json_files_data, file_key)])]

----------------------------------------------------------------------------
(* EnhancedValidationProcessor                                             *)
(* self.ground_truth_data is None or [list |-> the records]; a report that *)
(* is not there is None.  Report strings and the log lists are left out of *)
(* the reports: they restate the results they are printed from.            *)

CHARACTER_LEVEL == "character_level"
BUSINESS_LOGIC == "business_logic"
BOTH == "both"
ValidationMethods == {CHARACTER_LEVEL, BUSINESS_LOGIC, BOTH}

\* "not self.extracted_files_data"
no_files_loaded(files) == files = <<>>

\* "not self.ground_truth_data": None or an empty list
no_ground_truth(gt) == IF gt = NoneV THEN TRUE ELSE gt.list = <<>>

can_run_validation ==
    IF no_files_loaded(extracted_files_data) THEN FALSE
    ELSE IF validation_method = BUSINESS_LOGIC THEN TRUE
    ELSE self_ground_truth_data # NoneV

\* what run_character_validation returns
run_character_validation(gt_data, files) ==
    [type |-> "character_level",
     kpi_results |-> calculate_global_kpis(gt_data, files),
     ground_truth_lines |-> Len(gt_data)]

\* the sum of the fractions f[x], x in S
RECURSIVE SumRatios(_, _)
SumRatios(S, f) ==
    LET AddRatio(a, b) == Ratio(a[1] * b[2] + b[1] * a[2], a[2] * b[2])
        x == CHOOSE y \in S : TRUE
    IN  IF S = {} THEN Zero ELSE AddRatio(f[x], SumRatios(S \ {x}, f))

\* sum(f[x] for x in S)
RECURSIVE SumValues(_, _)
SumValues(S, f) ==
    IF S = {} THEN 0
    ELSE LET x == CHOOSE y \in S : TRUE IN f[x] + SumValues(S \ {x}, f)

\* what run_business_validation returns
run_business_validation(files, stamps) ==
    LET Successful(results) == {k \in DOMAIN results : results[k].success}
        Scores(results) == [k \in Successful(results) |-> results[k].score]
        Statistics(total_files, successful_validations, sum_scores) ==
            [total_files |-> total_files,
             successful_validations |-> successful_validations,
             failed_validations |-> total_files - successful_validations,
             average_score |-> IF successful_validations > 0
                               THEN Ratio(sum_scores, successful_validations)
                               ELSE Zero]
        BusinessReport(results) ==
            [type |-> "business_logic",
             business_results |-> results,
             statistics |-> Statistics(Cardinality(DOMAIN results),
                                       Cardinality(Successful(results)),
                                       SumValues(Successful(results), Scores(results)))]
    IN  BusinessReport(validate_business_logic(files, stamps))

\* f"{x:.1%}" of x = num/den >= 0: the tenths of a percent, rounded to nearest
Percent1(num, den) ==
    LET q == (1000 * num) \div den
        r == (1000 * num) % den
    IN  IF 2 * r > den \/ (2 * r = den /\ q % 2 = 1) THEN q + 1 ELSE q

\* file_analysis of one file
FileAnalysis(file_key, char, business) ==
    LET \* "if file_key in char_results.get('kpi_results', {})"
        CharacterSide(kpis) ==
            IF file_key \in DOMAIN kpis
            THEN [character_accuracy |-> kpis[file_key].overall_accuracy,
                  character_score |-> Percent1(kpis[file_key].overall_accuracy[1],
                                               kpis[file_key].overall_accuracy[2])]
            ELSE [k \in {} |-> 0]
        \* "if file_key in business_results.get('business_results', {})"
        BusinessSide(results) ==
            IF file_key \in DOMAIN results
            THEN (IF results[file_key].success
                  THEN [business_score |-> results[file_key].score,
                        business_status |-> results[file_key].status,
                        business_issues |-> Len(results[file_key].issues)]
                  ELSE [business_score |-> 0,
                        business_status |-> "FAILED",
                        business_error |-> results[file_key].error])
            ELSE [k \in {} |-> 0]
        \* "if 'character_accuracy' in file_analysis and 'business_score' in
        \* file_analysis": character_accuracy * 0.6 + business_score / 100 * 0.4
        WithCombinedScore(file_analysis) ==
            IF "character_accuracy" \in DOMAIN file_analysis
                   /\ "business_score" \in DOMAIN file_analysis
            THEN file_analysis @@
                 [combined_score |->
                     Percent1(600 * file_analysis.character_accuracy[1]
                                + 4 * file_analysis.business_score
                                    * file_analysis.character_accuracy[2],
                              1000 * file_analysis.character_accuracy[2])]
            ELSE file_analysis
    IN  WithCombinedScore([file_name |-> file_key]
                              @@ CharacterSide(char.kpi_results)
                              @@ BusinessSide(business.business_results))

\* what combine_validation_results returns, for at least one file
combine_validation_results(files, char, business) ==
    LET \* analysis.get('character_accuracy', 0)
        Accuracies(files_analysis) ==
            [file_key \in DOMAIN files_analysis |->
                IF "character_accuracy" \in DOMAIN files_analysis[file_key]
                THEN files_analysis[file_key].character_accuracy ELSE Zero]
        OverallSummary(char_sum, files_analyzed, average_score) ==
            [average_character_accuracy |->
                 Percent1(char_sum[1], char_sum[2] * files_analyzed),
             average_business_score |->
                 Percent1(average_score[1], average_score[2] * 100),
             files_analyzed |-> files_analyzed]
        Combined(files_analysis) ==
            [files_analysis |-> files_analysis,
             overall_summary |->
                 OverallSummary(SumRatios(DOMAIN files_analysis,
                                          Accuracies(files_analysis)),
                                Cardinality(DOMAIN files_analysis),
                                business.statistics.average_score)]
    IN  Combined([file_key \in Keys(files) |-> FileAnalysis(file_key, char, business)])

\* get_comparison_summary: [raised |-> the exception] or [returned |-> the
\* summary].  Of an entry of the summary the type and the accuracy are kept;
\* the rank and the strings, which restate the accuracy, are left out.
get_comparison_summary(results, method) ==
    LET Character(kpi_results) ==
            [file_key \in DOMAIN kpi_results |->
                [type |-> "character",
                 accuracy |-> kpi_results[file_key].overall_accuracy]]
        Business(business) ==
            [file_key \in DOMAIN business |->
                [type |-> "business",
                 accuracy |-> IF business[file_key].success
                              THEN Ratio(business[file_key].score, 100) ELSE Zero]]
        Both(files_analysis) ==
            [file_key \in {k \in DOMAIN files_analysis :
                              "combined_score" \in DOMAIN files_analysis[k]} |->
                [type |-> "combined",
                 accuracy |-> Ratio(files_analysis[file_key].combined_score, 1000)]]
    IN  IF results = NoneV THEN [returned |-> [k \in {} |-> 0]]
        ELSE IF method = CHARACTER_LEVEL
        THEN (IF "kpi_results" \in DOMAIN results
              THEN [returned |-> Character(results.kpi_results)]
              ELSE [raised |-> "KeyError"])
        ELSE IF method = BUSINESS_LOGIC
        THEN (IF "business_results" \in DOMAIN results
              THEN [returned |-> Business(results.business_results)]
              ELSE [raised |-> "KeyError"])
        ELSE (IF "combined_analysis" \in DOMAIN results
              THEN [returned |-> Both(results.combined_analysis.files_analysis)]
              ELSE [raised |-> "KeyError"])

\* get_field_comparison_details: [raised |-> the exception] or [returned |->
\* the details], of which accuracy, total_chars, correct_chars and
\* error_chars of every field are kept
get_field_comparison_details(results, method, file_key) ==
    LET Details(field_accuracies) ==
            [field_name \in DOMAIN field_accuracies |->
                [accuracy |-> field_accuracies[field_name].accuracy,
                 total_chars |-> field_accuracies[field_name].total_chars,
                 correct_chars |-> field_accuracies[field_name].correct_chars,
                 error_chars |-> field_accuracies[field_name].total_chars
                                     - field_accuracies[field_name].correct_chars]]
        OfFile(kpi_results) ==
            IF file_key \notin DOMAIN kpi_results THEN [returned |-> [k \in {} |-> 0]]
            ELSE [returned |-> Details(kpi_results[file_key].field_accuracies)]
    IN  IF method = BUSINESS_LOGIC THEN [returned |-> [k \in {} |-> 0]]
        ELSE IF results = NoneV THEN [returned |-> [k \in {} |-> 0]]
        ELSE IF "kpi_results" \notin DOMAIN results
        THEN [returned |-> [k \in {} |-> 0]]
        ELSE IF method = BOTH
        THEN (IF "character_level" \in DOMAIN results
              THEN OfFile(results.character_level.kpi_results)
              ELSE [raised |-> "KeyError"])
        ELSE OfFile(results.kpi_results)

\* the items candidate files and the reference are made of: a consistent
\* line, the line with a quantity in a string and a total that is too high,
\* a line with a blank description, an item that is no object, a line
\* without quantity, a line with words for numbers, a line with a comma, a
\* currency sign and a null in its numbers, a line with a number for its
\* barcode, and a line with a null description
Items ==
    [apple |->
         [line |-> 1, description |-> StrV(<<"a", "1">>), quantity |-> IntV(2),
          unit_price |-> IntV(10), total_amount |-> IntV(20)],
     overcharged |->
         [line |-> 1, description |-> StrV(<<"a", "1">>), quantity |-> StrV(<<"2">>),
          unit_price |-> IntV(10), total_amount |-> IntV(30)],
     blank |-> [line |-> 2, description |-> StrV(<<" ">>), quantity |-> IntV(1)],
     text |-> StrV(<<"a">>),
     bare |-> [description |-> StrV(<<" ", "a">>), unit_price |-> IntV(10)],
     worded |->
         [description |-> StrV(<<"a">>), quantity |-> StrV(<<"a">>),
          unit_price |-> StrV(<<"a">>), discount_percent |-> StrV(<<"a">>),
          vat_percent |-> StrV(<<"a">>)],
     priced |->
         [description |-> StrV(<<"a">>), quantity |-> StrV(<<"1", ",", "5">>),
          unit_price |-> StrV(<<"$", "3">>),
          total_amount |-> StrV(<<"1", ",", "0", "0", "0">>),
          vat_percent |-> NoneV],
     coded |->
         [description |-> StrV(<<"a", "1">>), barcode |-> IntV(7),
          quantity |-> IntV(2), unit_price |-> IntV(10)],
     undescribed |->
         [description |-> NoneV, quantity |-> IntV(2), unit_price |-> IntV(10)]]

\* what load_json_files leaves in extracted_files_data
CandidateFileSets ==
    LET File(file_key, items) == [key |-> file_key, items |-> items]
    IN  { <<File("f1", <<Items.apple>>)>>,
          <<File("f1", <<Items.overcharged, Items.blank>>)>>,
          <<File("f1", <<Items.apple>>), File("f2", <<Items.blank>>)>>,
          <<File("f2", <<Items.blank>>), File("f1", <<Items.apple>>)>>,
          <<File("f1", <<Items.apple>>), File("f2", <<Items.overcharged, Items.blank>>)>>,
          <<File("f1", <<Items.apple>>), File("f2", <<Items.text>>)>> }

\* the lists a ground truth file holds
ReferenceLists == {<<>>, <<Items.apple>>, <<Items.text>>}

\* the clock readings of n successive moments, none before from
RECURSIVE Stamps(_, _)
Stamps(n, from) ==
    IF n = 0 THEN {<<>>}
    ELSE UNION {{<<t>> \o s : s \in Stamps(n - 1, t)} : t \in from..MaxClock}

\* __init__
ProcInit ==
    /\ extracted_files_data = <<>>
    /\ self_ground_truth_data = NoneV
    /\ validation_results = NoneV
    /\ validation_method = CHARACTER_LEVEL
    /\ now = 0
    /\ calls = 0
    /\ last_call = [op |-> "__init__", outcome |-> "returned"]
    /\ run_pc = "idle"
    /\ run_inputs = NoneV
    /\ results_inputs = NoneV
    /\ run_report = NoneV
    /\ char_results = NoneV
    /\ business_results = NoneV

\* load_json_files, of files that all load
LoadJsonFiles ==
    /\ calls < MaxCalls
    /\ \E files \in CandidateFileSets : extracted_files_data' = files
    /\ calls' = calls + 1
    /\ last_call' = [op |-> "load_json_files", outcome |-> "returned"]
    /\ UNCHANGED <<self_ground_truth_data, validation_method, validation_results,
                   results_inputs, now, run_vars>>

\* the arguments of load_ground_truth: [path |-> what the file holds], a
\* list, a JSON scalar or nothing that can be read, or [data |-> a list];
\* a call without arguments does what a call with the data [] does
GroundTruthFiles == {[path |-> [list |-> data]] : data \in ReferenceLists}
GroundTruthArguments ==
    GroundTruthFiles
        \cup {[path |-> [scalar |-> TRUE]], [path |-> [unreadable |-> TRUE]]}
        \cup {[data |-> data] : data \in ReferenceLists}

\* load_ground_truth: what self.ground_truth_data is afterwards and what is
\* returned.  When the file holds a scalar nothing is assigned and
\* len(self.ground_truth_data) of the log line raises if nothing was stored
\* before; data that is empty is not assigned.
load_ground_truth(stored, argument) ==
    IF "path" \in DOMAIN argument
    THEN (IF "unreadable" \in DOMAIN argument.path
          THEN [stored |-> stored, returned |-> FALSE]
          ELSE IF "scalar" \in DOMAIN argument.path
          THEN [stored |-> stored, returned |-> stored # NoneV]
          ELSE [stored |-> argument.path, returned |-> TRUE])
    ELSE IF argument.data # <<>>
    THEN [stored |-> [list |-> argument.data], returned |-> TRUE]
    ELSE [stored |-> stored, returned |-> TRUE]

\* a call of load_ground_truth with one of the arguments
LoadGroundTruth(arguments) ==
    /\ calls < MaxCalls
    /\ \E argument \in arguments :
           \E r \in {load_ground_truth(self_ground_truth_data, argument)} :
               /\ self_ground_truth_data' = r.stored
               /\ last_call' = [op |-> "load_ground_truth",
                                outcome |-> IF r.returned THEN "True" ELSE "False",
                                argument |-> argument]
    /\ calls' = calls + 1
    /\ UNCHANGED <<extracted_files_data, validation_method, validation_results,
                   results_inputs, now, run_vars>>

SetValidationMethod ==
    /\ calls < MaxCalls
    /\ \E method \in ValidationMethods : validation_method' = method
    /\ calls' = calls + 1
    /\ last_call' = [op |-> "set_validation_method", outcome |-> "returned"]
    /\ UNCHANGED <<extracted_files_data, self_ground_truth_data, validation_results,
                   results_inputs, now, run_vars>>

ClearData ==
    /\ calls < MaxCalls
    /\ extracted_files_data' = <<>>
    /\ self_ground_truth_data' = NoneV
    /\ validation_results' = NoneV
    /\ results_inputs' = NoneV
    /\ calls' = calls + 1
    /\ last_call' = [op |-> "clear_data", outcome |-> "returned"]
    /\ UNCHANGED <<validation_method, now, run_vars>>

\* a call of get_comparison_summary: it returns or raises
GetComparisonSummary ==
    /\ calls < MaxCalls
    /\ \E r \in {get_comparison_summary(validation_results, validation_method)} :
           last_call' = [op |-> "get_comparison_summary",
                         outcome |-> IF "raised" \in DOMAIN r THEN r.raised
                                     ELSE "returned"]
    /\ calls' = calls + 1
    /\ UNCHANGED <<proc_data, validation_results, results_inputs, now, run_vars>>

\* a call of get_field_comparison_details: it returns or raises
GetFieldComparisonDetails ==
    /\ calls < MaxCalls
    /\ \E file_key \in {"f1", "f2"} :
           \E r \in {get_field_comparison_details(validation_results,
                                                  validation_method, file_key)} :
               last_call' = [op |-> "get_field_comparison_details",
                             outcome |-> IF "raised" \in DOMAIN r THEN r.raised
                                         ELSE "returned"]
    /\ calls' = calls + 1
    /\ UNCHANGED <<proc_data, validation_results, results_inputs, now, run_vars>>

\* run_validation is called: the data and the method in effect are noted
CallRunValidation ==
    /\ calls < MaxCalls
    /\ run_pc = "idle"
    /\ run_pc' = "entry"
    /\ run_inputs' = [files |-> extracted_files_data,
                      gt |-> self_ground_truth_data,
                      method |-> validation_method]
    /\ calls' = calls + 1
    /\ UNCHANGED <<proc_data, validation_results, results_inputs, now, last_call,
                   run_report, char_results, business_results>>

\* EnhancedValidationGUI.run_validation: the call is made on a background
\* thread, and only when can_run_validation() holds
GuiRunValidation == can_run_validation /\ CallRunValidation

\* the call ends with an exception: nothing is stored
Raise(exception) ==
    /\ run_pc' = "idle"
    /\ last_call' = [op |-> "run_validation", outcome |-> exception]
    /\ run_report' = NoneV
    /\ char_results' = NoneV
    /\ business_results' = NoneV
    /\ UNCHANGED <<proc_data, validation_results, results_inputs, now, calls,
                   run_inputs>>

\* raise ValueError("No JSON files loaded")
RunValidationNoFiles ==
    /\ run_pc = "entry"
    /\ no_files_loaded(extracted_files_data)
    /\ Raise("ValueError")

\* validation_results = {'method_used': ..., 'timestamp': ..., 'files_processed': ...}
RunValidationBegin ==
    /\ run_pc = "entry"
    /\ ~no_files_loaded(extracted_files_data)
    /\ \E t \in now..MaxClock :
          /\ now' = t
          /\ run_report' = [method_used |-> validation_method,
                            timestamp |-> t,
                            files_processed |-> Len(extracted_files_data)]
    /\ run_pc' = "dispatch"
    /\ UNCHANGED <<proc_data, validation_results, results_inputs, calls, last_call,
                   run_inputs, char_results, business_results>>

\* "if self.validation_method == ...": the branch of the method now selected
Dispatch ==
    /\ run_pc = "dispatch"
    /\ run_pc' = IF validation_method = CHARACTER_LEVEL THEN "character_only"
                 ELSE IF validation_method = BUSINESS_LOGIC THEN "business_only"
                 ELSE "both_character"
    /\ UNCHANGED <<proc_data, validation_results, results_inputs, now, calls,
                   last_call, run_inputs, run_report, char_results, business_results>>

\* run_character_validation: raise ValueError("No ground truth data ...")
CharacterValidationNoGroundTruth ==
    /\ run_pc \in {"character_only", "both_character"}
    /\ no_ground_truth(self_ground_truth_data)
    /\ Raise("ValueError")

\* run_character_validation: calculate_global_kpis raises
CharacterValidationRaises ==
    /\ run_pc \in {"character_only", "both_character"}
    /\ ~no_ground_truth(self_ground_truth_data)
    /\ kpis_raise(self_ground_truth_data.list, extracted_files_data)
    /\ Raise("AttributeError")

\* run_character_validation returns
CharacterValidation ==
    /\ run_pc \in {"character_only", "both_character"}
    /\ ~no_ground_truth(self_ground_truth_data)
    /\ ~kpis_raise(self_ground_truth_data.list, extracted_files_data)
    /\ \E r \in {run_character_validation(self_ground_truth_data.list,
                                           extracted_files_data)} :
           IF run_pc = "character_only"
           THEN /\ run_report' = r @@ run_report
                /\ char_results' = char_results
                /\ run_pc' = "store"
           ELSE /\ char_results' = r
                /\ run_report' = run_report
                /\ run_pc' = "both_business"
    /\ UNCHANGED <<proc_data, validation_results, results_inputs, now, calls,
                   last_call, run_inputs, business_results>>

\* run_business_validation returns
BusinessValidation ==
    /\ run_pc \in {"business_only", "both_business"}
    /\ \E stamps \in Stamps(Len(extracted_files_data), now) :
          \E r \in {run_business_validation(extracted_files_data, stamps)} :
              /\ now' = IF stamps = <<>> THEN now ELSE stamps[Len(stamps)]
              /\ IF run_pc = "business_only"
                 THEN /\ run_report' = r @@ run_report
                      /\ business_results' = business_results
                      /\ run_pc' = "store"
                 ELSE /\ business_results' = r
                      /\ run_report' = run_report
                      /\ run_pc' = "both_combine"
    /\ UNCHANGED <<proc_data, validation_results, results_inputs, calls, last_call,
                   run_inputs, char_results>>

\* combine_validation_results divides by len(files_analysis)
CombineRaises ==
    /\ run_pc = "both_combine"
    /\ no_files_loaded(extracted_files_data)
    /\ Raise("ZeroDivisionError")

\* validation_results.update({'character_level': ..., ...})
CombineValidationResults ==
    /\ run_pc = "both_combine"
    /\ extracted_files_data # <<>>
    /\ run_report' =
          [character_level |-> char_results,
           business_logic |-> business_results,
           combined_analysis |->
               combine_validation_results(extracted_files_data, char_results,
                                          business_results)] @@ run_report
    /\ run_pc' = "store"
    /\ UNCHANGED <<proc_data, validation_results, results_inputs, now, calls,
                   last_call, run_inputs, char_results, business_results>>

\* self.validation_results = validation_results; return validation_results
StoreResults ==
    /\ run_pc = "store"
    /\ validation_results' = run_report
    /\ results_inputs' = run_inputs
    /\ last_call' = [op |-> "run_validation", outcome |-> "completed"]
    /\ run_pc' = "idle"
    /\ run_report' = NoneV
    /\ char_results' = NoneV
    /\ business_results' = NoneV
    /\ UNCHANGED <<proc_data, now, calls, run_inputs>>

\* the processor is not used
ProcIdle ==
    /\ extracted_files_data = <<>>
    /\ self_ground_truth_data = NoneV
    /\ validation_results = NoneV
    /\ validation_method = CHARACTER_LEVEL
    /\ now = 0
    /\ calls = 0
    /\ last_call = [op |-> "__init__", outcome |-> "returned"]
    /\ run_pc = "unused"
    /\ run_inputs = NoneV
    /\ results_inputs = NoneV
    /\ run_report = NoneV
    /\ char_results = NoneV
    /\ business_results = NoneV

----------------------------------------------------------------------------
(* Specifications *)

----------------------------------------------------------------------------
(* One call of BusinessValidationAdapter.convert_json_to_invoice *)

\* the dicts the call is made on: with or without main_items, and with a
\* block 'summary', a block 'totals' or neither
AdpInit ==
    LET Blocks == { [subtotal |-> IntV(20), vat_amount |-> IntV(3),
                     total |-> IntV(23)],
                    [total |-> StrV(<<"5", "0">>)] }
        ItemLists == ListsUpTo({Items[k] : k \in DOMAIN Items}, MaxLines)
        JsonData ==
            {[main_items |-> l] : l \in ItemLists}
                \cup {[main_items |-> l, summary |-> b] : l \in ItemLists, b \in Blocks}
                \cup {[main_items |-> l, totals |-> b] : l \in ItemLists, b \in Blocks}
                \cup {[summary |-> b] : b \in Blocks}
    IN  /\ json_data \in JsonData
        /\ adp_pc = "call"
        /\ item_idx = 0
        /\ converted_lines = <<>>
        /\ converted_invoice = NoneV

AdpIdle ==
    /\ json_data = [main_items |-> <<>>]
    /\ adp_pc = "idle"
    /\ item_idx = 0
    /\ converted_lines = <<>>
    /\ converted_invoice = NoneV

\* "if not main_items": None is returned
NoMainItems ==
    /\ adp_pc = "call"
    /\ extract_main_items(json_data) = <<>>
    /\ adp_pc' = "done"
    /\ UNCHANGED <<json_data, item_idx, converted_lines, converted_invoice>>

\* "for i, item in enumerate(main_items)" is entered
ConvertLines ==
    /\ adp_pc = "call"
    /\ extract_main_items(json_data) # <<>>
    /\ adp_pc' = "loop"
    /\ item_idx' = 1
    /\ UNCHANGED <<json_data, converted_lines, converted_invoice>>

\* one pass of the loop: "if line: lines.append(line)"
ConvertItem ==
    /\ adp_pc = "loop"
    /\ item_idx <= Len(extract_main_items(json_data))
    /\ \E line \in {convert_item_to_line_item(
                        extract_main_items(json_data)[item_idx], item_idx)} :
           converted_lines' = IF line = NoneV THEN converted_lines
                              ELSE Append(converted_lines, line)
    /\ item_idx' = item_idx + 1
    /\ UNCHANGED <<json_data, adp_pc, converted_invoice>>

\* "if not lines": None is returned
NoValidLines ==
    /\ adp_pc = "loop"
    /\ item_idx > Len(extract_main_items(json_data))
    /\ converted_lines = <<>>
    /\ adp_pc' = "done"
    /\ UNCHANGED <<json_data, item_idx, converted_lines, converted_invoice>>

\* the Invoice is built of the lines and the final block, and returned
BuildInvoice ==
    /\ adp_pc = "loop"
    /\ item_idx > Len(extract_main_items(json_data))
    /\ converted_lines # <<>>
    /\ converted_invoice' =
           [lines |-> converted_lines,
            final |-> extract_invoice_final(json_data, converted_lines)]
    /\ adp_pc' = "done"
    /\ UNCHANGED <<json_data, item_idx, converted_lines>>

NextCompare == CompareCharacters /\ UNCHANGED <<kpi_vars, biz_vars, proc_vars, adp_vars>>

NextKpi ==
    \/ CalculateGlobalKpis /\ UNCHANGED <<cmp_vars, biz_vars, proc_vars, adp_vars>>
    \/ NextFile /\ UNCHANGED <<cmp_vars, biz_vars, proc_vars, adp_vars>>
    \/ SkipLine /\ UNCHANGED <<cmp_vars, biz_vars, proc_vars, adp_vars>>
    \/ ScoreLine /\ UNCHANGED <<cmp_vars, biz_vars, proc_vars, adp_vars>>
    \/ FinishFile /\ UNCHANGED <<cmp_vars, biz_vars, proc_vars, adp_vars>>
    \/ ReturnKpis /\ UNCHANGED <<cmp_vars, biz_vars, proc_vars, adp_vars>>

NextAdapter ==
    \/ NoMainItems /\ UNCHANGED <<cmp_vars, kpi_vars, biz_vars, proc_vars>>
    \/ ConvertLines /\ UNCHANGED <<cmp_vars, kpi_vars, biz_vars, proc_vars>>
    \/ ConvertItem /\ UNCHANGED <<cmp_vars, kpi_vars, biz_vars, proc_vars>>
    \/ NoValidLines /\ UNCHANGED <<cmp_vars, kpi_vars, biz_vars, proc_vars>>
    \/ BuildInvoice /\ UNCHANGED <<cmp_vars, kpi_vars, biz_vars, proc_vars>>

NextBusiness ==
    \/ Validate /\ UNCHANGED <<cmp_vars, kpi_vars, proc_vars, adp_vars>>
    \/ ScoreIssues /\ UNCHANGED <<cmp_vars, kpi_vars, proc_vars, adp_vars>>

\* the steps of one call of run_validation
NextRun ==
    \/ RunValidationNoFiles /\ UNCHANGED <<cmp_vars, kpi_vars, biz_vars, adp_vars>>
    \/ RunValidationBegin /\ UNCHANGED <<cmp_vars, kpi_vars, biz_vars, adp_vars>>
    \/ Dispatch /\ UNCHANGED <<cmp_vars, kpi_vars, biz_vars, adp_vars>>
    \/ CharacterValidationNoGroundTruth /\ UNCHANGED <<cmp_vars, kpi_vars, biz_vars, adp_vars>>
    \/ CharacterValidationRaises /\ UNCHANGED <<cmp_vars, kpi_vars, biz_vars, adp_vars>>
    \/ CharacterValidation /\ UNCHANGED <<cmp_vars, kpi_vars, biz_vars, adp_vars>>
    \/ BusinessValidation /\ UNCHANGED <<cmp_vars, kpi_vars, biz_vars, adp_vars>>
    \/ CombineValidationResults /\ UNCHANGED <<cmp_vars, kpi_vars, biz_vars, adp_vars>>
    \/ StoreResults /\ UNCHANGED <<cmp_vars, kpi_vars, biz_vars, adp_vars>>

\* one caller: a call is made when the call before it has ended
NextProcessor ==
    \/ run_pc = "idle" /\ LoadJsonFiles /\ UNCHANGED <<cmp_vars, kpi_vars, biz_vars, adp_vars>>
    \/ run_pc = "idle" /\ LoadGroundTruth(GroundTruthArguments)
          /\ UNCHANGED <<cmp_vars, kpi_vars, biz_vars, adp_vars>>
    \/ run_pc = "idle" /\ SetValidationMethod
          /\ UNCHANGED <<cmp_vars, kpi_vars, biz_vars, adp_vars>>
    \/ run_pc = "idle" /\ ClearData /\ UNCHANGED <<cmp_vars, kpi_vars, biz_vars, adp_vars>>
    \/ run_pc = "idle" /\ GetComparisonSummary
          /\ UNCHANGED <<cmp_vars, kpi_vars, biz_vars, adp_vars>>
    \/ run_pc = "idle" /\ GetFieldComparisonDetails
          /\ UNCHANGED <<cmp_vars, kpi_vars, biz_vars, adp_vars>>
    \/ CallRunValidation /\ UNCHANGED <<cmp_vars, kpi_vars, biz_vars, adp_vars>>
    \/ NextRun

\* the GUI: the run is on a background thread, the other calls are made by
\* the event loop whenever the user asks, the run button being disabled
\* until the run has ended
NextGui ==
    \/ LoadJsonFiles /\ UNCHANGED <<cmp_vars, kpi_vars, biz_vars, adp_vars>>
    \/ LoadGroundTruth(GroundTruthFiles)
          /\ UNCHANGED <<cmp_vars, kpi_vars, biz_vars, adp_vars>>
    \/ SetValidationMethod /\ UNCHANGED <<cmp_vars, kpi_vars, biz_vars, adp_vars>>
    \/ ClearData /\ UNCHANGED <<cmp_vars, kpi_vars, biz_vars, adp_vars>>
    \/ GuiRunValidation /\ UNCHANGED <<cmp_vars, kpi_vars, biz_vars, adp_vars>>
    \/ CombineRaises /\ UNCHANGED <<cmp_vars, kpi_vars, biz_vars, adp_vars>>
    \/ NextRun

Init == CmpInit /\ KpiInit /\ BizInit /\ ProcInit /\ AdpInit

Next ==
    NextCompare \/ NextKpi \/ NextBusiness \/ NextAdapter \/ NextProcessor \/ NextGui

Spec == Init /\ [][Next]_vars

\* calls of compare_characters alone
InitCompare == CmpInit /\ KpiIdle /\ BizIdle /\ ProcIdle /\ AdpIdle
SpecCompare == InitCompare /\ [][NextCompare]_vars

\* calls of calculate_global_kpis alone
InitKpi == KpiInit /\ CmpIdle /\ BizIdle /\ ProcIdle /\ AdpIdle
SpecKpi == InitKpi /\ [][NextKpi]_vars

\* calls of BusinessValidator alone
InitBusiness == BizInit /\ CmpIdle /\ KpiIdle /\ ProcIdle /\ AdpIdle
SpecBusiness == InitBusiness /\ [][NextBusiness]_vars

\* calls of convert_json_to_invoice alone
InitAdapter == AdpInit /\ CmpIdle /\ KpiIdle /\ BizIdle /\ ProcIdle
SpecAdapter == InitAdapter /\ [][NextAdapter]_vars

\* one processor used by one caller
InitProcessor == ProcInit /\ CmpIdle /\ KpiIdle /\ BizIdle /\ AdpIdle
SpecProcessor == InitProcessor /\ [][NextProcessor]_vars

\* one processor used by the GUI
SpecGui == InitProcessor /\ [][NextGui]_vars

----------------------------------------------------------------------------
(* Properties of the character comparison and of the aggregation *)

\* s without its leading and trailing whitespace, stated by positions
Trimmed(s) ==
    IF \A k \in DOMAIN s : s[k] \in Whitespace THEN <<>>
    ELSE LET first == CHOOSE i \in DOMAIN s :
                          s[i] \notin Whitespace
                              /\ \A k \in 1..(i - 1) : s[k] \in Whitespace
             last == CHOOSE j \in DOMAIN s :
                         s[j] \notin Whitespace
                             /\ \A k \in (j + 1)..Len(s) : s[k] \in Whitespace
         IN  SubSeq(s, first, last)

\* the fraction acc is the number n / d
IsRatio(acc, n, d) == acc[2] > 0 /\ acc[1] * d = n * acc[2]

RECURSIVE SumOver(_, _)
SumOver(S, f) ==
    IF S = {} THEN 0
    ELSE LET x == CHOOSE y \in S : TRUE IN f[x] + SumOver(S \ {x}, f)

\* C1: compare_characters stringifies and trims both inputs; both empty
\* gives total 0, correct 0, accuracy 1.0; exactly one empty gives the
\* length of the other, correct 0, accuracy 0.0; otherwise total is the
\* longer length, correct the number of positions below the shorter length
\* where the characters agree, and accuracy correct/total.
C1_CompareContract ==
    cmp_result # NoCall =>
        LET g == Trimmed(ToStr(ground_truth))
            p == Trimmed(ToStr(predicted))
            agree == {i \in 1..Min(Len(g), Len(p)) : g[i] = p[i]}
        IN  /\ (g = <<>> /\ p = <<>>) =>
                 /\ cmp_result.total_chars = 0
                 /\ cmp_result.correct_chars = 0
                 /\ cmp_result.accuracy = One
            /\ ((g = <<>>) # (p = <<>>)) =>
                 /\ cmp_result.total_chars = Len(g) + Len(p)
                 /\ cmp_result.correct_chars = 0
                 /\ cmp_result.accuracy = Zero
            /\ (g # <<>> /\ p # <<>>) =>
                 /\ cmp_result.total_chars = Max(Len(g), Len(p))
                 /\ cmp_result.correct_chars = Cardinality(agree)
                 /\ IsRatio(cmp_result.accuracy, cmp_result.correct_chars,
                            cmp_result.total_chars)

\* the integer 10 against the padded, shorter string " 1": two positions,
\* the first agrees, the second lies past the end of the shorter string
C1_Witness ==
    /\ cmp_result # NoCall
    /\ ground_truth = IntV(10)
    /\ predicted = StrV(<<" ", "1">>)
    /\ cmp_result.total_chars = 2
    /\ cmp_result.correct_chars = 1
    /\ cmp_result.accuracy = <<1, 2>>

\* the lines the loop of the current file has already gone through
VisitedLines ==
    all_line_numbers \ {line_queue[k] : k \in DOMAIN line_queue}

InReference(ln) ==
    \E i \in DOMAIN ground_truth_data : LineOf(ground_truth_data, i) = ln

InCandidate(ln) ==
    \E i \in DOMAIN predicted_files[file_idx].items :
        LineOf(predicted_files[file_idx].items, i) = ln

\* the loop is at a line that the reference and the current file both have
AtAlignedLine ==
    /\ kpi_pc = "line"
    /\ line_queue # <<>>
    /\ InReference(Head(line_queue)) /\ InCandidate(Head(line_queue))

\* the loop is at a line that the reference or the current file lacks
AtMissingLine ==
    /\ kpi_pc = "line"
    /\ line_queue # <<>>
    /\ ~(InReference(Head(line_queue)) /\ InCandidate(Head(line_queue)))

\* the fields of a reference record whose trimmed value is not empty
Asserted(ref) ==
    {f \in MeasuredSet : Trimmed(ToStr(Get(ref, f, EmptyStr))) # <<>>}

\* C2: at every aligned line of every candidate file, a field whose trimmed
\* reference value is empty adds nothing to any total or measured count;
\* every other field is compared with the candidate value (the empty string
\* when the candidate lacks it) and the comparison's total and correct
\* counts are added to the field's and to the file's running totals.
C2_FieldPolicy ==
    [][AtAlignedLine =>
        LET ref == gt_map[Head(line_queue)]
            cand == files_map(file_idx)[Head(line_queue)]
            cmp == [f \in Asserted(ref) |->
                       compare_characters(ref[f], Get(cand, f, EmptyStr))]
            totals == [f \in Asserted(ref) |-> cmp[f].total_chars]
            corrects == [f \in Asserted(ref) |-> cmp[f].correct_chars]
        IN  /\ \A f \in MeasuredSet \ Asserted(ref) :
                   field_stats'[f] = field_stats[f]
            /\ \A f \in Asserted(ref) :
                   /\ field_stats'[f].total_chars =
                          field_stats[f].total_chars + cmp[f].total_chars
                   /\ field_stats'[f].correct_chars =
                          field_stats[f].correct_chars + cmp[f].correct_chars
                   /\ field_stats'[f].measured_count =
                          field_stats[f].measured_count + 1
            /\ total_chars' = total_chars + SumOver(Asserted(ref), totals)
            /\ correct_chars' = correct_chars + SumOver(Asserted(ref), corrects)
            /\ total_measured_fields' =
                   total_measured_fields + Cardinality(Asserted(ref))
    ]_vars

\* a scored line whose reference leaves a field blank that the candidate
\* fills, and a scored line whose candidate lacks a field the reference has
C2_Witness ==
    /\ kpi_pc = "line"
    /\ \E ln \in VisitedLines :
           /\ InReference(ln) /\ InCandidate(ln)
           /\ \E f \in MeasuredSet \ Asserted(gt_map[ln]) :
                  f \in Asserted(files_map(file_idx)[ln])
    /\ \E ln \in VisitedLines :
           /\ InReference(ln) /\ InCandidate(ln)
           /\ \E f \in Asserted(gt_map[ln]) :
                  f \notin DOMAIN files_map(file_idx)[ln]
    /\ total_chars > correct_chars
    /\ correct_chars > 0

\* C3: a line of the union that the reference or the candidate lacks is
\* skipped for that candidate: it changes neither total_characters,
\* correct_characters, processed_lines nor any field statistic of the file.
C3_MissingLineSkipped ==
    [][AtMissingLine =>
          /\ UNCHANGED <<total_chars, correct_chars, processed_lines,
                         total_measured_fields, field_stats>>
          /\ line_queue' = Tail(line_queue)
    ]_vars

\* a file that went past a line only the reference has and past a line only
\* another file has, after scoring a line of its own
C3_Witness ==
    /\ kpi_pc = "line"
    /\ processed_lines >= 1
    /\ total_chars > 0
    /\ \E ln \in VisitedLines : InReference(ln) /\ ~InCandidate(ln)
    /\ \E ln \in VisitedLines : ~InReference(ln) /\ ~InCandidate(ln)

\* C4: overall_accuracy is correct_characters/total_characters when
\* total_characters > 0 and 0.0 when total_characters = 0, although one
\* comparison of two empty values reports 1.0.
C4_OverallAccuracy ==
    /\ compare_characters(EmptyStr, EmptyStr).accuracy = One
    /\ \A f \in DOMAIN global_results :
           LET r == global_results[f]
           IN  /\ r.total_characters > 0 =>
                     IsRatio(r.overall_accuracy, r.correct_characters,
                             r.total_characters)
               /\ r.total_characters = 0 => r.overall_accuracy = Zero

\* one file scored lines without a single asserted character, another file
\* of the same call got a proper fraction
C4_Witness ==
    /\ \E f \in DOMAIN global_results :
           /\ global_results[f].total_characters = 0
           /\ global_results[f].processed_lines >= 1
           /\ global_results[f].overall_accuracy = Zero
    /\ \E f \in DOMAIN global_results :
           /\ global_results[f].total_characters > 0
           /\ global_results[f].overall_accuracy \notin {Zero, One}

\* C19 as stated: for every string s, compare_characters(s, s) has accuracy
\* 1.0 and correct_chars = total_chars = len(s).
C19_AsStated ==
    (cmp_result # NoCall /\ ground_truth = predicted /\ "str" \in DOMAIN ground_truth)
        => /\ cmp_result.accuracy = One
           /\ cmp_result.correct_chars = Len(ground_truth.str)
           /\ cmp_result.total_chars = Len(ground_truth.str)

\* C19: for every string s, compare_characters(s, s) has accuracy 1.0 and
\* correct_chars = total_chars = the length of s without its leading and
\* trailing whitespace.
C19_CompareSelf ==
    (cmp_result # NoCall /\ ground_truth = predicted /\ "str" \in DOMAIN ground_truth)
        => /\ cmp_result.accuracy = One
           /\ cmp_result.correct_chars = Len(Trimmed(ground_truth.str))
           /\ cmp_result.total_chars = Len(Trimmed(ground_truth.str))

\* the padded string "a " against itself: one character is compared, not two
C19_Witness ==
    /\ cmp_result # NoCall
    /\ ground_truth = StrV(<<"a", " ">>)
    /\ predicted = ground_truth
    /\ cmp_result.total_chars = 1
    /\ cmp_result.correct_chars = 1
    /\ cmp_result.accuracy = One

\* C20: compare_characters(a, b) and compare_characters(b, a) report the
\* same total, the same correct count and the same accuracy, whether or not
\* a and b have the same length.
C20_Symmetric ==
    cmp_result # NoCall =>
        LET swapped == compare_characters(predicted, ground_truth)
        IN  /\ cmp_result.total_chars = swapped.total_chars
            /\ cmp_result.correct_chars = swapped.correct_chars
            /\ cmp_result.accuracy = swapped.accuracy

\* "a" against the longer "a1": two positions, one agrees, in either order
C20_Witness ==
    /\ cmp_result # NoCall
    /\ ground_truth = StrV(<<"a">>)
    /\ predicted = StrV(<<"a", "1">>)
    /\ cmp_result.total_chars = 2
    /\ cmp_result.correct_chars = 1
    /\ cmp_result = compare_characters(predicted, ground_truth)

----------------------------------------------------------------------------
(* Properties of the business rules and of the verdict.                    *)
(* The arithmetic below is stated in units of 0.000001, without division.  *)

\* |line_total - qty*unit_price*(1 - discount_pct/100)|
LineOff(line) ==
    Abs(line.line_total * 100
            - line.qty * line.unit_price * (100 - line.discount_pct))

\* |final.subtotal - sum of line_total|
SubtotalOff(inv) ==
    Abs(inv.final.subtotal - SumOver(DOMAIN inv.lines,
                                 [k \in DOMAIN inv.lines |-> inv.lines[k].line_total]))
        * 100

\* |final.total - (final.subtotal + final.vat_amount)|
TotalOff(inv) ==
    Abs(inv.final.total - (inv.final.subtotal + inv.final.vat_amount)) * 100

\* 0.05
FiveHundredths == TOLERANCE * 100

CountSeverity(issues, severity) ==
    Cardinality({k \in DOMAIN issues : issues[k].severity = severity})

CountCode(issues, code) ==
    Cardinality({k \in DOMAIN issues : issues[k].code = code})

IssuesAt(issues, path) == SelectSeq(issues, LAMBDA x : x.path = path)

LineIndexes(inv) == 0..(Len(inv.lines) - 1)

\* max(0, 100 - 10*ERRORs - 3*WARNs)
WeightedScore(issues) ==
    Max(0, 100 - 10 * CountSeverity(issues, "ERROR")
               - 3 * CountSeverity(issues, "WARN"))

\* line totals, subtotal and total match, and every VAT is the default
TotalsMatchDefaultVat(inv) ==
    /\ \A k \in DOMAIN inv.lines :
           LineOff(inv.lines[k]) <= FiveHundredths /\ inv.lines[k].vat_pct = 17
    /\ inv.final # NoFinal =>
           SubtotalOff(inv) <= FiveHundredths /\ TotalOff(inv) <= FiveHundredths

Clean(r) == r.issues = <<>> /\ r.score = 100 /\ r.status = "PASS"

ScoresAreWeighted ==
    /\ biz_pc = "scored" =>
           score_result = WeightedScore(score_issues) /\ score_result \in 0..100
    /\ biz_pc = "validated" =>
           report.score = WeightedScore(report.issues) /\ report.score \in 0..100

\* C5 as stated: the score is max(0, 100 - 10*ERRORs - 3*WARNs), an integer
\* in 0..100, and an invoice whose line totals, subtotal and total match and
\* whose VAT is the default has no issue, score 100 and status PASS.
C5_AsStated ==
    /\ ScoresAreWeighted
    /\ (biz_pc = "validated" /\ TotalsMatchDefaultVat(invoice)) => Clean(report)

\* C5, amended: the score is max(0, 100 - 10*ERRORs - 3*WARNs), an integer
\* in 0..100, and an invoice whose line totals, subtotal and total match,
\* whose VAT is the default and whose discounts all lie within 0..90 has no
\* issue, score 100 and status PASS.
C5_ScoreFormula ==
    /\ ScoresAreWeighted
    /\ (/\ biz_pc = "validated"
        /\ TotalsMatchDefaultVat(invoice)
        /\ \A k \in DOMAIN invoice.lines :
               invoice.lines[k].discount_pct \in 0..90)
           => Clean(report)

\* a matching invoice of two lines with a Final block, found clean
C5_Witness ==
    /\ biz_pc = "validated"
    /\ Len(invoice.lines) = 2
    /\ invoice.final # NoFinal
    /\ TotalsMatchDefaultVat(invoice)
    /\ \A k \in DOMAIN invoice.lines : invoice.lines[k].discount_pct \in 0..90
    /\ Clean(report)

\* C6: status is PASS exactly when score >= 90 and no issue is an ERROR,
\* otherwise REVIEW exactly when score >= 70, otherwise FAIL; so a report
\* with an ERROR (as for discount_pct = 150) has score <= 90 and is no PASS.
C6_Status ==
    biz_pc = "validated" =>
        LET errors == CountSeverity(report.issues, "ERROR")
            pass == report.score >= 90 /\ errors = 0
        IN  /\ report.status \in {"PASS", "REVIEW", "FAIL"}
            /\ (report.status = "PASS") <=> pass
            /\ (report.status = "REVIEW") <=> (~pass /\ report.score >= 70)
            /\ (report.status = "FAIL") <=> (~pass /\ report.score < 70)
            /\ errors > 0 => report.score <= 90 /\ report.status # "PASS"
            /\ (\E k \in DOMAIN invoice.lines :
                    invoice.lines[k].discount_pct = 150) => errors > 0

\* one line with discount_pct = 150 and nothing else wrong: one ERROR,
\* score 90, and REVIEW rather than PASS
C6_Witness ==
    /\ biz_pc = "validated"
    /\ Len(invoice.lines) = 1
    /\ invoice.lines[1].discount_pct = 150
    /\ CountSeverity(report.issues, "ERROR") = 1
    /\ report.score = 90
    /\ report.status = "REVIEW"

\* C7: line i gets exactly one ERROR E-LINE-TOTAL-MISMATCH at
\* lines[i].line_total if and only if its line_total is more than 0.05 away
\* from qty*unit_price*(1 - discount_pct/100); exactly 0.05 is accepted.
C7_LineTotals ==
    biz_pc = "validated" =>
        /\ \A i \in LineIndexes(invoice) :
               IssuesAt(report.issues, LinePath(i, "line_total")) =
                   IF LineOff(invoice.lines[i + 1]) > FiveHundredths
                   THEN <<Issue("E-LINE-TOTAL-MISMATCH", "ERROR",
                                LinePath(i, "line_total"))>>
                   ELSE <<>>
        /\ \A k \in DOMAIN report.issues :
               report.issues[k].code = "E-LINE-TOTAL-MISMATCH" =>
                   \E i \in LineIndexes(invoice) :
                       report.issues[k].path = LinePath(i, "line_total")

\* a line off by exactly 0.05 passes and a line off by 0.055 does not
C7_Witness ==
    /\ biz_pc = "validated"
    /\ Len(invoice.lines) = 2
    /\ LineOff(invoice.lines[1]) = FiveHundredths
    /\ LineOff(invoice.lines[2]) = 55000
    /\ CountCode(report.issues, "E-LINE-TOTAL-MISMATCH") = 1
    /\ IssuesAt(report.issues, LinePath(1, "line_total")) # <<>>

\* C8: with a Final block, E-SUBTOTAL-MISMATCH is emitted if and only if
\* subtotal is more than 0.05 away from the sum of the line totals, and
\* E-TOTAL-MISMATCH if and only if total is more than 0.05 away from
\* subtotal + vat_amount, each whatever the other does; without a Final
\* block neither is emitted.
C8_Subtotals ==
    biz_pc = "validated" =>
        /\ invoice.final # NoFinal =>
               /\ CountCode(report.issues, "E-SUBTOTAL-MISMATCH") =
                      (IF SubtotalOff(invoice) > FiveHundredths THEN 1 ELSE 0)
               /\ CountCode(report.issues, "E-TOTAL-MISMATCH") =
                      (IF TotalOff(invoice) > FiveHundredths THEN 1 ELSE 0)
        /\ invoice.final = NoFinal =>
               /\ CountCode(report.issues, "E-SUBTOTAL-MISMATCH") = 0
               /\ CountCode(report.issues, "E-TOTAL-MISMATCH") = 0

\* both the subtotal and the total are off, and both are reported
C8_Witness ==
    /\ biz_pc = "validated"
    /\ invoice.final # NoFinal
    /\ invoice.lines # <<>>
    /\ SubtotalOff(invoice) > FiveHundredths
    /\ TotalOff(invoice) > FiveHundredths
    /\ CountCode(report.issues, "E-SUBTOTAL-MISMATCH") = 1
    /\ CountCode(report.issues, "E-TOTAL-MISMATCH") = 1

\* C9: for its VAT a line gets one issue or none: ERROR E-VAT-RATE when
\* vat_pct < 0 or vat_pct > 100, WARN W-VAT-UNUSUAL when vat_pct is within
\* 0..100 and not 17, nothing when it is 17; never both.
C9_Vat ==
    biz_pc = "validated" =>
        \A i \in LineIndexes(invoice) :
            LET vat == invoice.lines[i + 1].vat_pct
                path == LinePath(i, "vat_pct")
            IN  IssuesAt(report.issues, path) =
                    IF vat < 0 \/ vat > 100
                    THEN <<Issue("E-VAT-RATE", "ERROR", path)>>
                    ELSE IF vat # 17
                    THEN <<Issue("W-VAT-UNUSUAL", "WARN", path)>>
                    ELSE <<>>

\* VAT 100 draws the WARN alone, VAT 101 the ERROR alone, VAT 17 nothing
C9_Witness ==
    /\ biz_pc = "validated"
    /\ Len(invoice.lines) = 3
    /\ invoice.lines[1].vat_pct = 100
    /\ invoice.lines[2].vat_pct = 101
    /\ invoice.lines[3].vat_pct = 17
    /\ CountCode(report.issues, "W-VAT-UNUSUAL") = 1
    /\ CountCode(report.issues, "E-VAT-RATE") = 1

\* a single line with discount_pct = 95 and nothing else wrong
OnlyDiscount95(inv) ==
    /\ Len(inv.lines) = 1
    /\ inv.lines[1].discount_pct = 95
    /\ TotalsMatchDefaultVat(inv)

\* C10: for its discount a line gets one issue or none: ERROR
\* E-DISCOUNT-RANGE when discount_pct < 0 or > 100, WARN W-DISCOUNT-HIGH
\* when 90 < discount_pct <= 100, nothing when 0 <= discount_pct <= 90; so
\* a single otherwise consistent line with discount_pct = 95 yields exactly
\* one WARN and score 97.
C10_Discounts ==
    biz_pc = "validated" =>
        /\ \A i \in LineIndexes(invoice) :
               LET discount == invoice.lines[i + 1].discount_pct
                   path == LinePath(i, "discount_pct")
               IN  IssuesAt(report.issues, path) =
                       IF discount < 0 \/ discount > 100
                       THEN <<Issue("E-DISCOUNT-RANGE", "ERROR", path)>>
                       ELSE IF discount > 90
                       THEN <<Issue("W-DISCOUNT-HIGH", "WARN", path)>>
                       ELSE <<>>
        /\ OnlyDiscount95(invoice) =>
               /\ report.issues =
                      <<Issue("W-DISCOUNT-HIGH", "WARN", LinePath(0, "discount_pct"))>>
               /\ report.score = 97

\* the single line with discount_pct = 95, with a matching Final block
C10_Witness ==
    /\ biz_pc = "validated"
    /\ OnlyDiscount95(invoice)
    /\ invoice.final # NoFinal
    /\ Len(report.issues) = 1
    /\ report.score = 97
    /\ report.status = "PASS"

----------------------------------------------------------------------------
(* Properties of the processor *)

\* a call of run_validation has ended
RunEnded == last_call.op = "run_validation"

\* the run used a method that scores characters
UsesCharacters(method) == method \in {CHARACTER_LEVEL, BOTH}

\* at least one candidate file is loaded and, when the method scores
\* characters, reference data is loaded
Precondition(inputs) ==
    /\ inputs.files # <<>>
    /\ UsesCharacters(inputs.method) => inputs.gt # NoneV

\* C11 as stated: a run is accepted if and only if at least one candidate
\* file is loaded and, for CHARACTER_LEVEL or BOTH, reference data is loaded;
\* otherwise it is rejected with ValueError.
C11_AsStated ==
    RunEnded => ((last_call.outcome # "ValueError") <=> Precondition(run_inputs))

\* C11: a run with a candidate file and a loaded but empty reference list,
\* which can_run_validation accepts, is rejected with ValueError.
C11_Witness ==
    /\ RunEnded
    /\ last_call.outcome = "ValueError"
    /\ run_inputs.files # <<>>
    /\ run_inputs.method = CHARACTER_LEVEL
    /\ run_inputs.gt = [list |-> <<>>]

\* a run_validation call has completed and stored its report
RunCompleted == RunEnded /\ last_call.outcome = "completed"

\* the character method has a usable reference and raises on no item
CharacterScores(inputs) ==
    IF no_ground_truth(inputs.gt) THEN FALSE
    ELSE ~kpis_raise(inputs.gt.list, inputs.files)

\* the business conversion of the file fails
BusinessFails(inputs, file_key) ==
    convert_json_to_invoice([main_items |-> FileAt(inputs.files, file_key).items])
        = NoneV

CharacterMethodFails(inputs) ==
    /\ inputs.method = BOTH
    /\ inputs.files # <<>>
    /\ IF no_ground_truth(inputs.gt) THEN FALSE
       ELSE kpis_raise(inputs.gt.list, inputs.files)

\* C13 as stated: in a BOTH run a failure of the character method, caused by
\* malformed data in one candidate file or in the reference, aborts neither
\* the character scoring of the other files nor the business validation of
\* any file.
C13_AsStated ==
    (RunEnded /\ CharacterMethodFails(run_inputs)) =>
        /\ last_call.outcome = "completed"
        /\ \A i \in DOMAIN run_inputs.files :
               /\ ~Malformed(run_inputs.files[i].items) /\ ~Malformed(run_inputs.gt.list)
                      => run_inputs.files[i].key
                             \in DOMAIN validation_results.character_level.kpi_results
               /\ run_inputs.files[i].key
                      \in DOMAIN validation_results.business_logic.business_results

\* C13: a BOTH run of a well-formed file and a file with an item that is no
\* record, against a well-formed reference, ends with AttributeError and
\* stores no report
C13_Witness ==
    /\ RunEnded
    /\ CharacterMethodFails(run_inputs)
    /\ ~Malformed(run_inputs.gt.list)
    /\ \E i \in DOMAIN run_inputs.files : ~Malformed(run_inputs.files[i].items)
    /\ last_call.outcome = "AttributeError"
    /\ validation_results = NoneV

\* the kpi_results of the stored report, None when the method has none
StoredKpiResults ==
    IF results_inputs.method = CHARACTER_LEVEL THEN validation_results.kpi_results
    ELSE IF results_inputs.method = BOTH
    THEN validation_results.character_level.kpi_results
    ELSE NoneV

\* the business_results of the stored report, None when the method has none
StoredBusinessResults ==
    IF results_inputs.method = BUSINESS_LOGIC THEN validation_results.business_results
    ELSE IF results_inputs.method = BOTH
    THEN validation_results.business_logic.business_results
    ELSE NoneV

\* the entry of a file whose business validation failed
FailedEntry(entry) ==
    /\ ~entry.success
    /\ "error" \in DOMAIN entry
    /\ entry.error # ""

\* C14: after a completed run every candidate file of the run has an entry
\* in kpi_results when the character method ran, in business_results when
\* the business method ran and in files_analysis when both ran; the entry of
\* a file whose business validation failed has success False and an error
\* description.
C14_EveryFileHasAnEntry ==
    validation_results # NoneV =>
        /\ UsesCharacters(results_inputs.method) =>
               DOMAIN StoredKpiResults = Keys(results_inputs.files)
        /\ results_inputs.method \in {BUSINESS_LOGIC, BOTH} =>
               /\ DOMAIN StoredBusinessResults = Keys(results_inputs.files)
               /\ \A file_key \in Keys(results_inputs.files) :
                      BusinessFails(results_inputs, file_key) =>
                          FailedEntry(StoredBusinessResults[file_key])
        /\ results_inputs.method = BOTH =>
               DOMAIN validation_results.combined_analysis.files_analysis
                   = Keys(results_inputs.files)

\* C14: a completed BOTH run of two files, one of which failed its business
\* validation and has its entries
C14_Witness ==
    /\ validation_results # NoneV
    /\ results_inputs.method = BOTH
    /\ Len(results_inputs.files) = 2
    /\ \E file_key \in Keys(results_inputs.files) :
           /\ BusinessFails(results_inputs, file_key)
           /\ FailedEntry(StoredBusinessResults[file_key])
           /\ file_key \in DOMAIN StoredKpiResults
           /\ file_key \in DOMAIN validation_results.combined_analysis.files_analysis

\* files_analysis of the stored report of a BOTH run
StoredFilesAnalysis == validation_results.combined_analysis.files_analysis

\* 0.6 * a + 0.4 * (b / 100) as combined_score shows it, a the fraction
\* accuracy and b the business score
CombinedScore(accuracy, business_score) ==
    Percent1(6 * 100 * accuracy[1] + 4 * business_score * accuracy[2],
             10 * 100 * accuracy[2])

\* C15 as stated: in the combined analysis a file has a combined score if
\* and only if it has a character accuracy a and a business score b of a
\* successful business validation, the score being 0.6*a + 0.4*(b/100); a
\* file whose business validation failed reports no business score and no
\* combined score.
C15_AsStated ==
    (validation_results # NoneV /\ results_inputs.method = BOTH) =>
        \A file_key \in DOMAIN StoredFilesAnalysis :
            LET analysis == StoredFilesAnalysis[file_key]
                succeeded == StoredBusinessResults[file_key].success
            IN  /\ "combined_score" \in DOMAIN analysis
                       <=> (file_key \in DOMAIN StoredKpiResults /\ succeeded)
                /\ succeeded =>
                       analysis.combined_score =
                           CombinedScore(StoredKpiResults[file_key].overall_accuracy,
                                         StoredBusinessResults[file_key].score)
                /\ ~succeeded => "business_score" \notin DOMAIN analysis

\* C15: the analysis of a file whose business validation failed holds a
\* business score of 0 and the combined score 0.6*a
C15_Witness ==
    /\ validation_results # NoneV
    /\ results_inputs.method = BOTH
    /\ \E file_key \in DOMAIN StoredFilesAnalysis :
           /\ ~StoredBusinessResults[file_key].success
           /\ StoredFilesAnalysis[file_key].business_status = "FAILED"
           /\ StoredFilesAnalysis[file_key].business_score = 0
           /\ StoredFilesAnalysis[file_key].combined_score =
                  CombinedScore(StoredKpiResults[file_key].overall_accuracy, 0)

\* a second run on the candidate files, reference and method of the stored
\* report is about to store its own report
SecondRunEnds ==
    /\ run_pc = "store"
    /\ validation_results # NoneV
    /\ results_inputs = run_inputs

\* C16 as stated: a second run on unchanged candidate files, reference and
\* method stores per-file character results and per-file business results
\* equal to those of the first run, everything nested inside them included.
C16_AsStated ==
    [][SecondRunEnds =>
           /\ StoredKpiResults' = StoredKpiResults
           /\ StoredBusinessResults' = StoredBusinessResults]_vars

\* C16: a second BUSINESS_LOGIC run on unchanged inputs has built per-file
\* results that differ from the stored ones in the timestamps of their
\* conversion_logs alone
C16_Witness ==
    /\ SecondRunEnds
    /\ run_inputs.method = BUSINESS_LOGIC
    /\ run_report.business_results # validation_results.business_results
    /\ \A file_key \in DOMAIN run_report.business_results :
           LET first == validation_results.business_results[file_key]
               second == run_report.business_results[file_key]
           IN  /\ [second EXCEPT !.conversion_logs = <<>>]
                      = [first EXCEPT !.conversion_logs = <<>>]
               /\ Len(second.conversion_logs) = Len(first.conversion_logs)
               /\ \A i \in DOMAIN second.conversion_logs :
                      [second.conversion_logs[i] EXCEPT !.timestamp = 0]
                          = [first.conversion_logs[i] EXCEPT !.timestamp = 0]

\* the character result of a file scored alone against the reference
AloneKpis(gt, file) == calculate_global_kpis(gt, <<file>>)[file.key]

\* the business results of a file validated alone, at any clock reading
AloneBusiness(file) == {FileBusinessResult(file.items, t) : t \in 0..MaxClock}

ReportOf(inputs, t, stamps) ==
    (IF inputs.method = CHARACTER_LEVEL
     THEN run_character_validation(inputs.gt.list, inputs.files)
     ELSE IF inputs.method = BUSINESS_LOGIC
     THEN run_business_validation(inputs.files, stamps)
     ELSE [character_level |-> run_character_validation(inputs.gt.list, inputs.files),
           business_logic |-> run_business_validation(inputs.files, stamps),
           combined_analysis |->
               combine_validation_results(
                   inputs.files,
                   run_character_validation(inputs.gt.list, inputs.files),
                   run_business_validation(inputs.files, stamps))])
    @@ [method_used |-> inputs.method,
        timestamp |-> t,
        files_processed |-> Len(inputs.files)]

\* a run on these inputs completes
Completes(inputs) ==
    /\ inputs.files # <<>>
    /\ UsesCharacters(inputs.method) => CharacterScores(inputs)

\* the stored report is a complete result of the inputs its run started with
StoredReportIsOfItsInputs ==
    IF Completes(results_inputs)
    THEN \E t \in 0..MaxClock :
             \E stamps \in Stamps(Len(results_inputs.files), 0) :
                 validation_results = ReportOf(results_inputs, t, stamps)
    ELSE FALSE

\* C18 as stated: with caller actions interleaved with a run on the
\* background thread, validation_results is at every moment either absent or
\* a complete result computed from the candidate files, reference and method
\* in effect when its run started, and a run abandoned by clear_data
\* publishes nothing: while no file is loaded again no report is stored.
C18_AsStated ==
    /\ validation_results # NoneV => StoredReportIsOfItsInputs
    /\ extracted_files_data = <<>> => validation_results = NoneV

\* C18: clear_data was called while a run was on its way, and the run has
\* stored its report in the cleared processor
C18_Witness ==
    /\ run_pc = "idle"
    /\ extracted_files_data = <<>>
    /\ self_ground_truth_data = NoneV
    /\ validation_results # NoneV
    /\ last_call = [op |-> "run_validation", outcome |-> "completed"]

----------------------------------------------------------------------------
(* Properties of whole files and of the adapter *)

\* the trimmed text of a field of a record, '' when the record lacks it
FieldText(record, field) == Strip(ToStr(Get(record, field, EmptyStr)))

\* the fields of a reference line that are measured: those not blank
MeasuredOf(gt_line) == {field \in MeasuredSet : FieldText(gt_line, field) # <<>>}

\* the i-th candidate file has every line of the reference, and on every
\* measured field of every line the same text as the reference
MatchesReference(i) ==
    \A ln \in DOMAIN gt_map :
        /\ ln \in DOMAIN files_map(i)
        /\ \A field \in MeasuredOf(gt_map[ln]) :
               FieldText(files_map(i)[ln], field) = FieldText(gt_map[ln], field)

\* the i-th candidate file has every line of the reference and every
\* measured field of it, and no character of it is the reference's
\* character at the same position
EveryCharacterWrong(i) ==
    \A ln \in DOMAIN gt_map :
        /\ ln \in DOMAIN files_map(i)
        /\ \A field \in MeasuredOf(gt_map[ln]) :
               /\ field \in DOMAIN files_map(i)[ln]
               /\ \A k \in 1..Min(Len(FieldText(gt_map[ln], field)),
                                  Len(FieldText(files_map(i)[ln], field))) :
                      FieldText(gt_map[ln], field)[k]
                          # FieldText(files_map(i)[ln], field)[k]

\* C21: given at least one measured character, a candidate file that matches
\* the reference on every measured field of every line has overall_accuracy
\* 1.0, and a candidate file that has all fields present and differs from
\* the reference at every character position has overall_accuracy 0.0.
C21_AllRightAllWrong ==
    \A i \in DOMAIN predicted_files :
        (predicted_files[i].key \in DOMAIN global_results
            /\ global_results[predicted_files[i].key].total_characters > 0) =>
            /\ MatchesReference(i) =>
                   global_results[predicted_files[i].key].overall_accuracy = One
            /\ EveryCharacterWrong(i) =>
                   global_results[predicted_files[i].key].overall_accuracy = Zero

\* C21: one call scored a file that matches the reference, padded
\* differently, and a file of two wrong fields of other lengths
C21_Witness ==
    /\ kpi_pc = "done"
    /\ Len(predicted_files) = 2
    /\ MatchesReference(1)
    /\ predicted_files[1].items # ground_truth_data
    /\ global_results[predicted_files[1].key].overall_accuracy = One
    /\ EveryCharacterWrong(2)
    /\ global_results[predicted_files[2].key].total_characters = 4
    /\ global_results[predicted_files[2].key].overall_accuracy = Zero

\* C22: with the reference of one line (description "Apple", quantity 2,
\* unit_price 10, total_amount 20), the file equal to the reference has
\* overall_accuracy 1.0, and the file that differs only by the description
\* "Aplle" has the accuracy 4/5 on the description and an overall accuracy
\* strictly between 0.8 and 1.0.
C22_EndToEnd ==
    (/\ ground_truth_data = EndToEndExample.ground_truth_data
     /\ predicted_files = EndToEndExample.predicted_files) =>
        /\ "f1" \in DOMAIN global_results =>
               global_results["f1"].overall_accuracy = One
        /\ "f2" \in DOMAIN global_results =>
               /\ "description" \in DOMAIN global_results["f2"].field_accuracies
               /\ global_results["f2"].field_accuracies["description"].accuracy
                      = <<4, 5>>
               /\ 4 * global_results["f2"].overall_accuracy[2]
                      < 5 * global_results["f2"].overall_accuracy[1]
               /\ global_results["f2"].overall_accuracy[1]
                      < global_results["f2"].overall_accuracy[2]

\* C22: the call on the example has returned, with 9 of 10 characters of the
\* second file correct
C22_Witness ==
    /\ ground_truth_data = EndToEndExample.ground_truth_data
    /\ predicted_files = EndToEndExample.predicted_files
    /\ kpi_pc = "done"
    /\ global_results["f1"].overall_accuracy = One
    /\ global_results["f2"].correct_characters = 9
    /\ global_results["f2"].total_characters = 10

\* the record has a description that is not blank
Described(item) ==
    IF IsScalar(item) THEN FALSE
    ELSE IF "description" \notin DOMAIN item THEN FALSE
    ELSE IF item.description = NoneV THEN FALSE
    ELSE Strip(ToStr(item.description)) # <<>>

\* the positions, counted from 1, of the records that have a description
DescribedItems(data) ==
    {i \in DOMAIN extract_main_items(data) : Described(extract_main_items(data)[i])}

\* C23: a record whose description is missing or blank is dropped and the
\* conversion goes on, so the invoice has exactly the records with a
\* description that is not blank, in their order; when there is none the
\* conversion fails.
C23_AsStated ==
    adp_pc = "done" =>
        IF DescribedItems(json_data) = {} THEN converted_invoice = NoneV
        ELSE /\ converted_invoice # NoneV
             /\ {converted_invoice.lines[k].line_no :
                     k \in DOMAIN converted_invoice.lines} = DescribedItems(json_data)
             /\ \A k \in 1..(Len(converted_invoice.lines) - 1) :
                    converted_invoice.lines[k].line_no
                        < converted_invoice.lines[k + 1].line_no

\* C23: of two records with the same description the one whose barcode is a
\* number is not in the invoice
C23_Witness ==
    /\ adp_pc = "done"
    /\ extract_main_items(json_data) = <<Items.coded, Items.apple>>
    /\ converted_invoice # NoneV
    /\ Len(converted_invoice.lines) = 1
    /\ converted_invoice.lines[1].line_no = 2

\* the field of the record is absent, or holds text without any digit
AbsentOrNonNumeric(item, field) ==
    IF field \notin DOMAIN item THEN TRUE
    ELSE IF "str" \notin DOMAIN item[field] THEN FALSE
    ELSE \A k \in DOMAIN item[field].str :
             \A d \in DOMAIN Digits : item[field].str[k] # Digits[d]

\* the record the k-th converted line was made of
ItemOf(k) == extract_main_items(json_data)[converted_lines[k].line_no]

\* C24: in a converted line qty, unit_price and discount_pct are 0 whenever
\* the record's field is absent or not numeric, and vat_pct is 17 whenever
\* the record's vat_percent is absent or not numeric.
C24_AsStated ==
    \A k \in DOMAIN converted_lines :
        /\ AbsentOrNonNumeric(ItemOf(k), "quantity") => converted_lines[k].qty = 0
        /\ AbsentOrNonNumeric(ItemOf(k), "unit_price") =>
               converted_lines[k].unit_price = 0
        /\ AbsentOrNonNumeric(ItemOf(k), "discount_percent") =>
               converted_lines[k].discount_pct = 0
        /\ AbsentOrNonNumeric(ItemOf(k), "vat_percent") =>
               converted_lines[k].vat_pct = 17

\* C24: a record without quantity became a line of quantity 1, and a record
\* whose vat_percent is a word became a line of VAT 0
C24_Witness ==
    /\ adp_pc = "done"
    /\ extract_main_items(json_data) = <<Items.bare, Items.worded>>
    /\ Len(converted_lines) = 2
    /\ converted_lines[1].qty = 1
    /\ converted_lines[1].vat_pct = 17
    /\ converted_lines[2].qty = 0
    /\ converted_lines[2].vat_pct = 0

\* the value is text of one digit, a comma and one digit
CommaBetweenDigits(v) ==
    IF "str" \notin DOMAIN v THEN FALSE
    ELSE IF Len(v.str) # 3 THEN FALSE
    ELSE /\ v.str[2] = ","
         /\ \E d \in DOMAIN Digits : v.str[1] = Digits[d]
         /\ \E d \in DOMAIN Digits : v.str[3] = Digits[d]

\* C25: the coercion of a number strips the currency sign and the thousands
\* separators, reads a comma as the decimal point when the value has no dot
\* ("1,5" is 1.5), and makes 0 of what cannot be parsed, never failing the
\* line.
C25_AsStated ==
    /\ \A k \in DOMAIN converted_lines :
           /\ ("quantity" \in DOMAIN ItemOf(k)
                   /\ CommaBetweenDigits(ItemOf(k).quantity)) =>
                  converted_lines[k].qty * 10
                      = StrToNat(<<ItemOf(k).quantity.str[1],
                                   ItemOf(k).quantity.str[3]>>)
           /\ ("unit_price" \in DOMAIN ItemOf(k)
                   /\ ItemOf(k).unit_price = StrV(<<"$", "3">>)) =>
                  converted_lines[k].unit_price = 3 * CurrencyUnit
           /\ ("total_amount" \in DOMAIN ItemOf(k)
                   /\ ItemOf(k).total_amount = StrV(<<"1", ",", "0", "0", "0">>)) =>
                  converted_lines[k].line_total = 1000 * CurrencyUnit
           /\ ("quantity" \in DOMAIN ItemOf(k)
                   /\ AbsentOrNonNumeric(ItemOf(k), "quantity")) =>
                  converted_lines[k].qty = 0
    /\ adp_pc = "done" =>
           \A i \in DOMAIN extract_main_items(json_data) :
               extract_main_items(json_data)[i] \in {Items.worded, Items.priced} =>
                   \E k \in DOMAIN converted_lines : converted_lines[k].line_no = i

\* C25: the record of quantity "1,5", price "$3" and amount "1,000" became a
\* line of quantity 15, price 3 and amount 1000
C25_Witness ==
    /\ adp_pc = "done"
    /\ extract_main_items(json_data) = <<Items.priced>>
    /\ Len(converted_lines) = 1
    /\ converted_lines[1].qty = 15
    /\ converted_lines[1].unit_price = 3 * CurrencyUnit
    /\ converted_lines[1].line_total = 1000 * CurrencyUnit

\* the invoice a business validation run builds of a loaded file: the run
\* hands the adapter {'main_items': the items extracted when the file was
\* loaded}
RunInvoice(data) == convert_json_to_invoice([main_items |-> extract_main_items(data)])

\* the values of a block that has all three of them
ExplicitFinal(block) ==
    [subtotal |-> safe_decimal(block.subtotal) * CurrencyUnit,
     vat_amount |-> safe_decimal(block.vat_amount) * CurrencyUnit,
     total |-> safe_decimal(block.total) * CurrencyUnit]

\* C26: the Final block has the values of the file's summary block when the
\* file has one, and is otherwise computed of the lines; this holds for the
\* invoice a business validation run builds of the file.
C26_AsStated ==
    (adp_pc = "done" /\ converted_invoice # NoneV) =>
        /\ ("summary" \in DOMAIN json_data
                /\ DOMAIN json_data.summary = {"subtotal", "vat_amount", "total"}) =>
               converted_invoice.final = ExplicitFinal(json_data.summary)
        /\ ("summary" \notin DOMAIN json_data /\ "totals" \notin DOMAIN json_data) =>
               converted_invoice.final =
                   [subtotal |-> SumLineTotals(converted_lines),
                    vat_amount |-> SumLineVat(converted_lines),
                    total |-> SumLineTotals(converted_lines)
                                  + SumLineVat(converted_lines)]
        /\ RunInvoice(json_data).final = converted_invoice.final

\* C26: a file with a summary block of VAT 3 on a line of 20 at 17%: called
\* on the file the adapter takes the VAT of the block, in a run it computes
\* 3.4
C26_Witness ==
    /\ adp_pc = "done"
    /\ extract_main_items(json_data) = <<Items.apple>>
    /\ "summary" \in DOMAIN json_data
    /\ DOMAIN json_data.summary = {"subtotal", "vat_amount", "total"}
    /\ converted_invoice.final.vat_amount = 3 * CurrencyUnit
    /\ RunInvoice(json_data).final.vat_amount = (34 * CurrencyUnit) \div 10

\* C27: whenever can_run_validation() is True the checks run_validation
\* makes of its data pass, also for a loaded empty reference list: a run
\* called when can_run_validation() was True (which is Precondition of the
\* data and method in effect at the call) is not rejected with ValueError.
C27_AsStated ==
    /\ can_run_validation =>
           /\ ~no_files_loaded(extracted_files_data)
           /\ UsesCharacters(validation_method) =>
                  ~no_ground_truth(self_ground_truth_data)
    /\ (RunEnded /\ Precondition(run_inputs)) => last_call.outcome # "ValueError"

\* C27: with a candidate file and an empty reference list loaded and the
\* method BOTH, can_run_validation() is True and the run just made has been
\* rejected with ValueError
C27_Witness ==
    /\ RunEnded
    /\ can_run_validation
    /\ validation_method = BOTH
    /\ run_inputs = [files |-> extracted_files_data,
                     gt |-> self_ground_truth_data,
                     method |-> validation_method]
    /\ self_ground_truth_data = [list |-> <<>>]
    /\ last_call.outcome = "ValueError"

\* C28: after any sequence of calls get_comparison_summary() and
\* get_field_comparison_details() return without raising: the stored
\* validation_results are those of a run of the method now selected, which
\* is the shape the reader for that method expects.
C28_AsStated ==
    /\ last_call.op \in {"get_comparison_summary", "get_field_comparison_details"} =>
           last_call.outcome = "returned"
    /\ validation_results # NoneV =>
           validation_results.method_used = validation_method

\* C28: the results of a CHARACTER_LEVEL run are stored, the method has been
\* set to BUSINESS_LOGIC since, and get_comparison_summary() has raised
\* KeyError
C28_Witness ==
    /\ last_call = [op |-> "get_comparison_summary", outcome |-> "KeyError"]
    /\ validation_results # NoneV
    /\ validation_results.method_used = CHARACTER_LEVEL
    /\ validation_method = BUSINESS_LOGIC

\* a call of load_ground_truth ends with this step
LoadGroundTruthEnds ==
    /\ last_call'.op = "load_ground_truth"
    /\ calls' = calls + 1
    /\ run_pc' = run_pc

\* the data a call of load_ground_truth was given: the list the file holds
\* or the list passed; None stands for a file without a list
Supplied(argument) ==
    IF "data" \in DOMAIN argument THEN [list |-> argument.data]
    ELSE IF "list" \in DOMAIN argument.path THEN argument.path
    ELSE NoneV

\* C29: when load_ground_truth returns True the stored reference is the data
\* the call was given, and when it returns False the stored reference is
\* what it was before; no call returns True and leaves the older reference
\* in place.
C29_AsStated ==
    [][LoadGroundTruthEnds =>
           /\ last_call'.outcome = "True" =>
                  self_ground_truth_data' = Supplied(last_call'.argument)
           /\ last_call'.outcome = "False" =>
                  self_ground_truth_data' = self_ground_truth_data]_vars

\* C29: load_ground_truth(ground_truth_data=[]) has returned True and the
\* reference loaded before it is still stored
C29_Witness ==
    /\ last_call.op = "load_ground_truth"
    /\ last_call.outcome = "True"
    /\ last_call.argument = [data |-> <<>>]
    /\ self_ground_truth_data = [list |-> <<Items.apple>>]

\* the fraction lies in [0, 1]
InUnitInterval(acc) == acc[2] > 0 /\ 0 <= acc[1] /\ acc[1] <= acc[2]

\* C30: in every per-file result of calculate_global_kpis the correct
\* characters are between 0 and the total; the totals are the sums over the
\* fields listed in field_accuracies, and total_measured_fields is the sum
\* of their measured_in_lines; every listed field has at least one character
\* and between 0 and total_chars correct ones; the overall accuracy and every
\* field accuracy lie in [0, 1].
C30_ResultInvariants ==
    \A f \in DOMAIN global_results :
        LET r == global_results[f]
            listed == DOMAIN r.field_accuracies
        IN  /\ 0 <= r.correct_characters
            /\ r.correct_characters <= r.total_characters
            /\ r.total_characters
                   = SumOver(listed, [x \in listed |-> r.field_accuracies[x].total_chars])
            /\ r.correct_characters
                   = SumOver(listed, [x \in listed |-> r.field_accuracies[x].correct_chars])
            /\ r.total_measured_fields
                   = SumOver(listed,
                             [x \in listed |-> r.field_accuracies[x].measured_in_lines])
            /\ InUnitInterval(r.overall_accuracy)
            /\ \A x \in listed :
                   /\ r.field_accuracies[x].total_chars >= 1
                   /\ 0 <= r.field_accuracies[x].correct_chars
                   /\ r.field_accuracies[x].correct_chars
                          <= r.field_accuracies[x].total_chars
                   /\ InUnitInterval(r.field_accuracies[x].accuracy)

\* C30: the call has returned the result of a file with two listed fields,
\* one of them measured in two lines, and some but not all characters correct
C30_Witness ==
    /\ kpi_pc = "done"
    /\ \E f \in DOMAIN global_results :
           /\ Cardinality(DOMAIN global_results[f].field_accuracies) = 2
           /\ \E x \in DOMAIN global_results[f].field_accuracies :
                  global_results[f].field_accuracies[x].measured_in_lines = 2
           /\ 0 < global_results[f].correct_characters
           /\ global_results[f].correct_characters
                  < global_results[f].total_characters

====
